---- MODULE Spec2Model ----
(***************************************************************************)
(* Log-normalization and pattern-digest pipeline of the Logging Analyzer.  *)
(*                                                                         *)
(* JavaScript strings are modelled as sequences of one-character strings,  *)
(* so that concatenation (template literals), toLowerCase, trim and        *)
(* unanchored regular-expression matches are computed the way the code     *)
(* computes them.                                                          *)
(***************************************************************************)
EXTENDS Integers, Sequences, FiniteSets, TLC

VARIABLES
    logs,        \* processLogs / calculateStats: the argument `logs`; in
                 \* handleFileUpload the local `parsedLogs`
    patterns,    \* processLogs: the local `patterns` after patterns.sort(...)
    digest,      \* processLogs: the returned LogDigest[]
    digestDone,  \* processLogs has returned
    stats,       \* calculateStats: the returned object
    statsDone,   \* calculateStats has returned; on the page, the state
                 \* `stats` is not null
    levelIn,     \* normalizeLevel: the argument `level`
    levelOut,    \* normalizeLevel: the returned string
    levelDone,   \* normalizeLevel has returned
    fields,      \* the header row: `headers`, results.meta.fields
    resultsData, \* the rows: sampleRows, [row], or results.data
    formatArg,   \* parseLogRow / parseCSV: the argument `format`
    throwsAt,    \* parseCSV: positions of the rows parseLogRow throws for
    chosenFormat, \* what detectLogFormat returned; parseCSV's detectedFormat
    mapped,      \* parseCSV: the array results.data.map(...) returns
    entries,     \* the LogEntry[] parseLogRow returned or parseCSV resolved
    errorMessage, \* parseCSV: the message of the Error it rejected with
    outcome,     \* "idle", "pending", "returned", "resolved", "rejected"
    pc,          \* analyzeLogDigest: where the call stands
    attempt,     \* analyzeLogDigest: the local retry loop's `attempt`
    digestLength, \* analyzeLogDigest: digest.length
    apiKeySet,   \* process.env.GEMINI_API_KEY is set
    lambdaConfigured, \* the Lambda function name and AWS key id are set
    returned,    \* analyzeLogDigest: what it returned, and by which path
    aiPc,        \* analyzeLogsWithAI: where the call stands
    aiAttempt,   \* analyzeLogsWithAI: the retry loop's `attempt`
    currentModelIndex, \* analyzeLogsWithAI: index into `models`, from 0
    calls,       \* analyzeLogsWithAI: generateContent calls made so far
    lastError,   \* analyzeLogsWithAI: the kind of the error last caught
    iterationEnd, \* analyzeLogsWithAI: how the last loop iteration ended
    groupCount,  \* analyzeLogsWithAI: logGroups.length
    insights,    \* analyzeLogsWithAI: the returned AIInsight[]
    pagePc,      \* handleFileUpload: the await the run stands at
    loading,     \* page state `loading`
    pageStatus,  \* page state `status`
    pageError,   \* page state `error`: NoError for null, else the message
    analyzedPatterns, \* page state `analyzedPatterns`
    frames       \* parseLogRow: the format arguments of the nested calls

digestVars == <<logs, patterns, digest, digestDone, stats, statsDone>>
levelVars == <<levelIn, levelOut, levelDone>>
csvVars == <<fields, resultsData, formatArg, throwsAt, chosenFormat, mapped, entries,
             errorMessage, outcome>>
analyzeVars == <<pc, attempt, digestLength, apiKeySet, lambdaConfigured,
                 returned>>
aiVars == <<aiPc, aiAttempt, currentModelIndex, calls, lastError,
            iterationEnd, groupCount, insights>>
pageVars == <<pagePc, loading, pageStatus, pageError, analyzedPatterns>>
vars == <<logs, patterns, digest, digestDone, stats, statsDone,
          levelIn, levelOut, levelDone,
          fields, resultsData, formatArg, throwsAt, chosenFormat, mapped, entries,
          errorMessage, outcome,
          pc, attempt, digestLength, apiKeySet, lambdaConfigured, returned,
          aiPc, aiAttempt, currentModelIndex, calls, lastError, iterationEnd,
          groupCount, insights,
          pagePc, loading, pageStatus, pageError, analyzedPatterns,
          frames>>

-----------------------------------------------------------------------------
(* Bounds of the model.                                                    *)

\* longest record list drawn in full from SmallEntries
MaxLen == 3
\* the bulk record lists hold up to DigestCap + BulkExtra distinct clusters
BulkExtra == 2
\* most blanks put before and after a level string
MaxPad == 1

-----------------------------------------------------------------------------
(* Strings.                                                                *)

UpperChars == <<"A","B","C","D","E","F","G","H","I","J","K","L","M",
                "N","O","P","Q","R","S","T","U","V","W","X","Y","Z">>
LowerChars == <<"a","b","c","d","e","f","g","h","i","j","k","l","m",
                "n","o","p","q","r","s","t","u","v","w","x","y","z">>

Min(a, b) == IF a <= b THEN a ELSE b
SetMax(S) == CHOOSE m \in S : \A n \in S : n <= m
SetMin(S) == CHOOSE m \in S : \A n \in S : m <= n

\* String.prototype.toLowerCase, one character
ToLowerChar(c) ==
    IF \E i \in 1..Len(UpperChars) : UpperChars[i] = c
    THEN LowerChars[CHOOSE i \in 1..Len(UpperChars) : UpperChars[i] = c]
    ELSE c

\* String.prototype.toUpperCase, one character (used to build inputs only)
ToUpperChar(c) ==
    IF \E i \in 1..Len(LowerChars) : LowerChars[i] = c
    THEN UpperChars[CHOOSE i \in 1..Len(LowerChars) : LowerChars[i] = c]
    ELSE c

\* String.prototype.toLowerCase
ToLowerCase(s) == [i \in 1..Len(s) |-> ToLowerChar(s[i])]

ToUpperCase(s) == [i \in 1..Len(s) |-> ToUpperChar(s[i])]

\* the white space String.prototype.trim removes (the blank and the tab stand
\* for the whole class)
WhiteSpace == {" ", "\t"}

\* String.prototype.trim
Trim(s) ==
    LET keep == {i \in 1..Len(s) : s[i] \notin WhiteSpace}
    IN  IF keep = {} THEN <<>> ELSE SubSeq(s, SetMin(keep), SetMax(keep))

\* String.prototype.includes, and an unanchored match of a literal
Includes(s, w) ==
    \E i \in 0..(Len(s) - Len(w)) : SubSeq(s, i + 1, i + Len(w)) = w

\* String(n) of a natural number
RECURSIVE NumberToString(_)
NumberToString(n) ==
    LET d == <<"0","1","2","3","4","5","6","7","8","9">>
    IN  IF n < 10 THEN <<d[n + 1]>>
        ELSE Append(NumberToString(n \div 10), d[(n % 10) + 1])

sError == <<"E","r","r","o","r">>
sWarning == <<"W","a","r","n","i","n","g">>
sInfo == <<"I","n","f","o">>
sDebug == <<"D","e","b","u","g">>
sConstructor == <<"c","o","n","s","t","r","u","c","t","o","r">>
sToString == <<"t","o","S","t","r","i","n","g">>

-----------------------------------------------------------------------------
(* processLogs.                                                            *)

\* patterns.slice(0, 100)
DigestCap == 100

\* convertWindowsLog
\* fault variant of convertWindowsLog: the component is taken from LineId
convertWindowsLogLineIdComponent(w) ==
    [timestamp |-> w.Time, component |-> w.LineId, level |-> w.Level,
     content |-> w.Content, source |-> "Windows"]

convertWindowsLog(w) ==
    [timestamp |-> w.Time, component |-> w.Component, level |-> w.Level,
     content |-> w.Content, source |-> "Windows"]

\* logs.length > 0 && 'LineId' in logs[0] ? logs.map(convertWindowsLog) : logs
UnifiedLogs(ls) ==
    IF Len(ls) > 0 /\ "LineId" \in DOMAIN ls[1]
    THEN [i \in 1..Len(ls) |-> convertWindowsLog(ls[i])]
    ELSE ls

\* `${log.component}-${log.level}`
Fingerprint(log) == log.component \o <<"-">> \o log.level

\* fault variant of AddLog: the count is set when the cluster is created and
\* not incremented afterwards
AddLogNoIncrementOnRepeat(acc, log) ==
    LET key == Fingerprint(log)
    IN  IF \E i \in 1..Len(acc) : acc[i].fingerprint = key
        THEN acc
        ELSE Append(acc, [component |-> log.component, level |-> log.level,
                          count |-> 1, sample |-> log.content,
                          fingerprint |-> key])

\* fault variant of AddLog: every record of a cluster replaces its sample
AddLogLastSample(acc, log) ==
    LET key == Fingerprint(log)
        seeded ==
            IF \E i \in 1..Len(acc) : acc[i].fingerprint = key
            THEN acc
            ELSE Append(acc, [component |-> log.component, level |-> log.level,
                              count |-> 0, sample |-> log.content,
                              fingerprint |-> key])
        k == CHOOSE i \in 1..Len(seeded) : seeded[i].fingerprint = key
    IN  [seeded EXCEPT ![k].count = @ + 1, ![k].sample = log.content]

\* the reducer of unifiedLogs.reduce: acc is the object `clusters`, kept as the
\* sequence of its values in the order their keys were created (own string
\* keys that are not array indices enumerate in creation order, and every key
\* holds a "-")
AddLog(acc, log) ==
    LET key == Fingerprint(log)
        seeded ==
            IF \E i \in 1..Len(acc) : acc[i].fingerprint = key
            THEN acc
            ELSE Append(acc, [component |-> log.component, level |-> log.level,
                              count |-> 0, sample |-> log.content,
                              fingerprint |-> key])
        k == CHOOSE i \in 1..Len(seeded) : seeded[i].fingerprint = key
    IN  [seeded EXCEPT ![k].count = @ + 1]

\* unifiedLogs.reduce(reducer, {}) over ls[lo..hi], left to right. The range is
\* folded in two halves and Len(acc) is taken on entry (it is never negative)
\* only to keep TLC's evaluation shallow.
RECURSIVE ReduceLogs(_, _, _, _)
ReduceLogs(acc, ls, lo, hi) ==
    IF lo > hi \/ Len(acc) < 0 THEN acc
    ELSE IF lo = hi THEN AddLog(acc, ls[lo])
    ELSE LET mid == (lo + hi) \div 2
         IN  ReduceLogs(ReduceLogs(acc, ls, lo, mid), ls, mid + 1, hi)

\* Object.values(unifiedLogs.reduce(reducer, {}))
Clusters(ls) == ReduceLogs(<<>>, ls, 1, Len(ls))

\* names every object inherits from Object.prototype: for these the lookup
\* levelPriority[level] finds a function, not a number
ObjectPrototypeKeys == {sConstructor, sToString}

\* levelPriority[level] || 0, as [isNumber, n]: the literal's own keys give
\* their number, an inherited key gives a (truthy) function, any other key
\* undefined and so 0
LevelPriorityOrZero(level) ==
    IF level = sError THEN [isNumber |-> TRUE, n |-> 3]
    ELSE IF level = sWarning THEN [isNumber |-> TRUE, n |-> 2]
    ELSE IF level = sInfo THEN [isNumber |-> TRUE, n |-> 1]
    ELSE IF level \in ObjectPrototypeKeys THEN [isNumber |-> FALSE, n |-> 0]
    ELSE [isNumber |-> TRUE, n |-> 0]

\* the comparator handed to patterns.sort, as Array.prototype.sort reads it:
\* a NaN result (a function minus a number) counts as +0
CompareFn(a, b) ==
    IF b.count # a.count THEN b.count - a.count
    ELSE LET pb == LevelPriorityOrZero(b.level)
             pa == LevelPriorityOrZero(a.level)
         IN  IF pb.isNumber /\ pa.isNumber THEN pb.n - pa.n ELSE 0

\* fault variant of InsertPattern: x goes in front of the elements it ties with
InsertPatternBeforeTies(sorted, x) ==
    LET notAfter == {k \in 1..Len(sorted) : CompareFn(sorted[k], x) < 0}
        pos == IF notAfter = {} THEN 0 ELSE SetMax(notAfter)
    IN  SubSeq(sorted, 1, pos) \o <<x>> \o SubSeq(sorted, pos + 1, Len(sorted))

\* one step of a stable sort: x goes behind the last element that does not
\* sort after it
InsertPattern(sorted, x) ==
    LET notAfter == {k \in 1..Len(sorted) : CompareFn(sorted[k], x) <= 0}
        pos == IF notAfter = {} THEN 0 ELSE SetMax(notAfter)
    IN  SubSeq(sorted, 1, pos) \o <<x>> \o SubSeq(sorted, pos + 1, Len(sorted))

\* patterns.sort(compareFn): Array.prototype.sort is stable (ES2019)
RECURSIVE SortFrom(_, _, _, _)
SortFrom(sorted, ps, lo, hi) ==
    IF lo > hi \/ Len(sorted) < 0 THEN sorted
    ELSE IF lo = hi THEN InsertPattern(sorted, ps[lo])
    ELSE LET mid == (lo + hi) \div 2
         IN  SortFrom(SortFrom(sorted, ps, lo, mid), ps, mid + 1, hi)

SortPatterns(ps) == SortFrom(<<>>, ps, 1, Len(ps))

\* fault variant of TopPatterns: no slice
TopPatternsUncapped(ps) == ps

\* patterns.slice(0, 100)

TopPatterns(ps) == SubSeq(ps, 1, Min(Len(ps), DigestCap))

\* fault variant of ToDigestEntry: every frequency is 1
ToDigestEntryUnitFrequency(p) ==
    [component |-> p.component, level |-> p.level, frequency |-> 1,
     sampleContent |-> p.sample, fingerprint |-> p.fingerprint]

\* .map((p) => ({component, level, frequency, sampleContent, fingerprint}))
ToDigestEntry(p) ==
    [component |-> p.component, level |-> p.level, frequency |-> p.count,
     sampleContent |-> p.sample, fingerprint |-> p.fingerprint]

\* what processLogs(ls) returns
processLogs(ls) ==
    LET top == TopPatterns(SortPatterns(Clusters(UnifiedLogs(ls))))
    IN  [i \in 1..Len(top) |-> ToDigestEntry(top[i])]

-----------------------------------------------------------------------------
(* calculateStats.                                                         *)

sLowerError == <<"e","r","r","o","r">>
sLowerWarning == <<"w","a","r","n","i","n","g">>

\* fault variant of CountLevel: no toLowerCase
CountLevelCaseSensitive(ls, word) ==
    Cardinality({i \in 1..Len(ls) : ls[i].level = word})

\* unifiedLogs.filter((log) => log.level.toLowerCase() === word).length

CountLevel(ls, word) ==
    Cardinality({i \in 1..Len(ls) : ToLowerCase(ls[i].level) = word})

\* fault variant of UniquePatterns: the level is left out of the key
UniquePatternsByComponent(ls) ==
    Cardinality({ls[i].component : i \in 1..Len(ls)})

\* new Set(unifiedLogs.map((log) => `${log.component}-${log.level}`)).size

UniquePatterns(ls) == Cardinality({Fingerprint(ls[i]) : i \in 1..Len(ls)})

\* what calculateStats(ls) returns
calculateStats(ls) ==
    [totalLogs |-> Len(UnifiedLogs(ls)),
     uniquePatterns |-> UniquePatterns(UnifiedLogs(ls)),
     errorCount |-> CountLevel(UnifiedLogs(ls), sLowerError),
     warningCount |-> CountLevel(UnifiedLogs(ls), sLowerWarning)]

-----------------------------------------------------------------------------
(* normalizeLevel.                                                         *)

\* /error|err|critical|crit|fatal|emergency|emerg/
ErrorWords ==
    {<<"e","r","r","o","r">>,
     <<"e","r","r">>,
     <<"c","r","i","t","i","c","a","l">>,
     <<"c","r","i","t">>,
     <<"f","a","t","a","l">>,
     <<"e","m","e","r","g","e","n","c","y">>,
     <<"e","m","e","r","g">>}

\* /warn|warning/
WarningWords ==
    {<<"w","a","r","n">>,
     <<"w","a","r","n","i","n","g">>}

\* /info|information|notice/
InfoWords ==
    {<<"i","n","f","o">>,
     <<"i","n","f","o","r","m","a","t","i","o","n">>,
     <<"n","o","t","i","c","e">>}

\* /debug|trace|verbose/
DebugWords ==
    {<<"d","e","b","u","g">>,
     <<"t","r","a","c","e">>,
     <<"v","e","r","b","o","s","e">>}

\* levelLower.match(/w1|w2|.../): an unanchored match, so a match anywhere in
\* the string
MatchesAny(s, words) == \E w \in words : Includes(s, w)

\* fault variant of normalizeLevel: the Warning group is tried before Error
normalizeLevelWarningFirst(level) ==
    LET levelLower == Trim(ToLowerCase(level))
    IN  IF MatchesAny(levelLower, WarningWords) THEN sWarning
        ELSE IF MatchesAny(levelLower, ErrorWords) THEN sError
        ELSE IF MatchesAny(levelLower, InfoWords) THEN sInfo
        ELSE IF MatchesAny(levelLower, DebugWords) THEN sDebug
        ELSE IF levelLower \in {<<"0">>, <<"1">>, <<"2">>} THEN sError
        ELSE IF levelLower \in {<<"3">>, <<"4">>} THEN sWarning
        ELSE IF levelLower \in {<<"5">>, <<"6">>} THEN sInfo
        ELSE IF levelLower = <<"7">> THEN sDebug
        ELSE IF level # <<>> THEN level ELSE sInfo

\* fault variant of normalizeLevel: the case-folded, trimmed string is returned
normalizeLevelReturnsLowered(level) ==
    LET levelLower == Trim(ToLowerCase(level))
    IN  IF MatchesAny(levelLower, ErrorWords) THEN sError
        ELSE IF MatchesAny(levelLower, WarningWords) THEN sWarning
        ELSE IF MatchesAny(levelLower, InfoWords) THEN sInfo
        ELSE IF MatchesAny(levelLower, DebugWords) THEN sDebug
        ELSE IF levelLower \in {<<"0">>, <<"1">>, <<"2">>} THEN sError
        ELSE IF levelLower \in {<<"3">>, <<"4">>} THEN sWarning
        ELSE IF levelLower \in {<<"5">>, <<"6">>} THEN sInfo
        ELSE IF levelLower = <<"7">> THEN sDebug
        ELSE IF levelLower # <<>> THEN levelLower ELSE sInfo

\* normalizeLevel(level)
normalizeLevel(level) ==
    LET levelLower == Trim(ToLowerCase(level))
    IN  IF MatchesAny(levelLower, ErrorWords) THEN sError
        ELSE IF MatchesAny(levelLower, WarningWords) THEN sWarning
        ELSE IF MatchesAny(levelLower, InfoWords) THEN sInfo
        ELSE IF MatchesAny(levelLower, DebugWords) THEN sDebug
        ELSE IF levelLower \in {<<"0">>, <<"1">>, <<"2">>} THEN sError
        ELSE IF levelLower \in {<<"3">>, <<"4">>} THEN sWarning
        ELSE IF levelLower \in {<<"5">>, <<"6">>} THEN sInfo
        ELSE IF levelLower = <<"7">> THEN sDebug
        ELSE IF level # <<>> THEN level ELSE sInfo

-----------------------------------------------------------------------------
(* detectLogFormat and the row parsers (logParsers).  A row is the object  *)
(* Papa.parse builds with header: true: a function from the header names   *)
(* of the cells the line has to the cells' strings.                        *)

\* String(row[key] || ''): a missing cell reads as the empty string
Cell(row, key) == IF key \in DOMAIN row THEN row[key] ELSE <<>>

\* headerLower.includes(name)
HeaderIncludes(headers, name) ==
    \E i \in 1..Len(headers) : ToLowerCase(headers[i]) = name

\* the OpenSSH test of one sample row: row[headers[0] || ''] lower-cased
\* includes sshd, connection or authentication
LooksLikeOpenSSH(headers, row) ==
    LET key == IF Len(headers) > 0 THEN headers[1] ELSE <<>>
        content == ToLowerCase(Cell(row, key))
    IN  \/ Includes(content, <<"s","s","h","d">>)
        \/ Includes(content, <<"c","o","n","n","e","c","t","i","o","n">>)
        \/ Includes(content, <<"a","u","t","h","e","n","t","i","c","a","t","i","o","n">>)

\* fault variant of detectLogFormat: it never answers 'auto' and gives a tag
\* that parseLogRow has no case for
detectLogFormatNeverAuto(headers, sampleRows) == "openstack"

\* detectLogFormat with the Spark rule tested before the Linux syslog rule
detectLogFormatSparkFirst(headers, sampleRows) ==
    LET has(name) == HeaderIncludes(headers, name)
    IN  IF has(<<"l","i","n","e","i","d">>) /\ has(<<"c","o","m","p","o","n","e","n","t">>) /\ has(<<"l","e","v","e","l">>)
        THEN "windows"
        ELSE IF has(<<"t","i","m","e","s","t","a","m","p">>) /\ has(<<"l","o","g","g","e","r">>)
        THEN "spark"
        ELSE IF has(<<"t","i","m","e","s","t","a","m","p">>) /\ (has(<<"h","o","s","t","n","a","m","e">>) \/ has(<<"h","o","s","t">>))
        THEN "linux-syslog"
        ELSE IF has(<<"r","e","m","o","t","e","h","o","s","t">>) \/ has(<<"r","e","q","u","e","s","t">>) \/ has(<<"s","t","a","t","u","s">>)
        THEN "apache"
        ELSE IF has(<<"l","o","g","t","i","m","e">>) /\ (has(<<"l","e","v","e","l">>) \/ has(<<"p","r","i","o","r","i","t","y">>))
        THEN "hadoop"
        ELSE IF \E i \in 1..Len(sampleRows) :
                    LooksLikeOpenSSH(headers, sampleRows[i])
        THEN "openssh"
        ELSE "auto"

detectLogFormat(headers, sampleRows) ==
    LET has(name) == HeaderIncludes(headers, name)
    IN  IF has(<<"l","i","n","e","i","d">>) /\ has(<<"c","o","m","p","o","n","e","n","t">>) /\ has(<<"l","e","v","e","l">>)
        THEN "windows"
        ELSE IF has(<<"t","i","m","e","s","t","a","m","p">>) /\ (has(<<"h","o","s","t","n","a","m","e">>) \/ has(<<"h","o","s","t">>))
        THEN "linux-syslog"
        ELSE IF has(<<"r","e","m","o","t","e","h","o","s","t">>) \/ has(<<"r","e","q","u","e","s","t">>) \/ has(<<"s","t","a","t","u","s">>)
        THEN "apache"
        ELSE IF has(<<"l","o","g","t","i","m","e">>) /\ (has(<<"l","e","v","e","l">>) \/ has(<<"p","r","i","o","r","i","t","y">>))
        THEN "hadoop"
        ELSE IF has(<<"t","i","m","e","s","t","a","m","p">>) /\ has(<<"l","o","g","g","e","r">>)
        THEN "spark"
        ELSE IF \E i \in 1..Len(sampleRows) :
                    LooksLikeOpenSSH(headers, sampleRows[i])
        THEN "openssh"
        ELSE "auto"

\* headers.find(h => h.toLowerCase() is one of names), then header || key:
\* the key the row is read under
LookupKey(headers, names, key) ==
    LET hit == {i \in 1..Len(headers) : ToLowerCase(headers[i]) \in names}
    IN  IF hit = {} THEN key
        ELSE IF headers[SetMin(hit)] = <<>> THEN key
        ELSE headers[SetMin(hit)]

\* getValue(key) of parseWindowsLog
getValueWindows(row, headers, key) ==
    Cell(row, LookupKey(headers, {ToLowerCase(key)}, key))

\* getValue(key, alt) of the other parsers; alt is '' where the code passes
\* '' or nothing
getValue(row, headers, key, alt) ==
    Cell(row, LookupKey(headers, {ToLowerCase(key), ToLowerCase(alt)}, key))

\* a || b on strings: the empty string is falsy
OrElse(a, b) == IF a # <<>> THEN a ELSE b

sUnknown == <<"u","n","k","n","o","w","n">>

parseWindowsLog(row, headers) ==
    [timestamp |-> getValueWindows(row, headers, <<"T","i","m","e">>),
     component |-> getValueWindows(row, headers, <<"C","o","m","p","o","n","e","n","t">>),
     level |-> getValueWindows(row, headers, <<"L","e","v","e","l">>),
     content |-> getValueWindows(row, headers, <<"C","o","n","t","e","n","t">>),
     source |-> "Windows"]

\* parseLinuxSyslog without the 'unknown' and 'Info' fallbacks
parseLinuxSyslogNoFallback(row, headers) ==
    [timestamp |-> Trim(getValue(row, headers, <<"t","i","m","e","s","t","a","m","p">>, <<"d","a","t","e">>) \o <<" ">>
                          \o getValue(row, headers, <<"t","i","m","e">>, <<>>)),
     component |-> OrElse(getValue(row, headers, <<"p","r","o","g","r","a","m">>, <<"s","e","r","v","i","c","e">>),
                     OrElse(getValue(row, headers, <<"c","o","m","p","o","n","e","n","t">>, <<"d","a","e","m","o","n">>),
                            getValue(row, headers, <<"l","o","g","g","e","r">>, <<>>))),
     level |-> OrElse(getValue(row, headers, <<"l","e","v","e","l">>, <<"p","r","i","o","r","i","t","y">>),
                      getValue(row, headers, <<"s","e","v","e","r","i","t","y">>, <<>>)),
     content |-> OrElse(getValue(row, headers, <<"m","e","s","s","a","g","e">>, <<"m","s","g">>),
                        getValue(row, headers, <<"c","o","n","t","e","n","t">>, <<>>)),
     source |-> "Linux",
     hostname |-> getValue(row, headers, <<"h","o","s","t","n","a","m","e">>, <<"h","o","s","t">>),
     pid |-> getValue(row, headers, <<"p","i","d">>, <<"p","r","o","c","e","s","s","i","d">>)]

parseLinuxSyslog(row, headers) ==
    LET component ==
            OrElse(getValue(row, headers, <<"p","r","o","g","r","a","m">>, <<"s","e","r","v","i","c","e">>),
              OrElse(getValue(row, headers, <<"c","o","m","p","o","n","e","n","t">>, <<"d","a","e","m","o","n">>),
                     getValue(row, headers, <<"l","o","g","g","e","r">>, <<>>)))
        level ==
            OrElse(getValue(row, headers, <<"l","e","v","e","l">>, <<"p","r","i","o","r","i","t","y">>),
              OrElse(getValue(row, headers, <<"s","e","v","e","r","i","t","y">>, <<>>), sInfo))
    IN  [timestamp |-> Trim(getValue(row, headers, <<"t","i","m","e","s","t","a","m","p">>, <<"d","a","t","e">>)
                              \o <<" ">>
                              \o getValue(row, headers, <<"t","i","m","e">>, <<>>)),
         component |-> OrElse(component, sUnknown),
         level |-> normalizeLevel(level),
         content |-> OrElse(getValue(row, headers, <<"m","e","s","s","a","g","e">>, <<"m","s","g">>),
                            getValue(row, headers, <<"c","o","n","t","e","n","t">>, <<>>)),
         source |-> "Linux",
         hostname |-> getValue(row, headers, <<"h","o","s","t","n","a","m","e">>, <<"h","o","s","t">>),
         pid |-> getValue(row, headers, <<"p","i","d">>, <<"p","r","o","c","e","s","s","i","d">>)]

DigitChars == <<"0","1","2","3","4","5","6","7","8","9">>

IsDigit(c) == \E i \in 1..Len(DigitChars) : DigitChars[i] = c

RECURSIVE DigitsValue(_)
DigitsValue(d) ==
    IF d = <<>> THEN 0
    ELSE 10 * DigitsValue(SubSeq(d, 1, Len(d) - 1))
           + (CHOOSE i \in 1..Len(DigitChars) : DigitChars[i] = d[Len(d)]) - 1

NaN == [isNumber |-> FALSE, n |-> 0]

\* parseInt(s): leading white space, an optional sign, the leading digits
ParseInt(s) ==
    LET lead == {i \in 1..Len(s) : s[i] \notin WhiteSpace}
        start == IF lead = {} THEN Len(s) + 1 ELSE SetMin(lead)
        signed == start <= Len(s) /\ s[start] \in {"+", "-"}
        first == IF signed THEN start + 1 ELSE start
        stop == SetMin({i \in first..(Len(s) + 1) :
                           i = Len(s) + 1 \/ ~IsDigit(s[i])})
        magnitude == DigitsValue(SubSeq(s, first, stop - 1))
    IN  IF stop = first THEN NaN
        ELSE [isNumber |-> TRUE,
              n |-> IF signed /\ s[start] = "-" THEN 0 - magnitude
                    ELSE magnitude]

\* parseInt(status) >= limit: false for NaN
AtLeast(number, limit) == number.isNumber /\ number.n >= limit

parseApacheLog(row, headers) ==
    LET status == getValue(row, headers, <<"s","t","a","t","u","s">>, <<"c","o","d","e">>)
        request == getValue(row, headers, <<"r","e","q","u","e","s","t">>, <<"u","r","i">>)
    IN  [timestamp |-> getValue(row, headers, <<"t","i","m","e","s","t","a","m","p">>, <<"t","i","m","e">>),
         component |-> <<"a","p","a","c","h","e">>,
         level |-> IF AtLeast(ParseInt(status), 500) THEN sError
                   ELSE IF AtLeast(ParseInt(status), 400) THEN sWarning
                   ELSE sInfo,
         content |-> getValue(row, headers, <<"m","e","t","h","o","d">>, <<>>) \o <<" ">>
                       \o request \o <<" ", "-", " ">> \o status
                       \o <<" ", "-", " ">>
                       \o getValue(row, headers, <<"r","e","f","e","r","e","r">>, <<>>),
         source |-> "Apache",
         hostname |-> getValue(row, headers, <<"r","e","m","o","t","e","h","o","s","t">>, <<"h","o","s","t">>)]

parseHadoopLog(row, headers) ==
    [timestamp |-> getValue(row, headers, <<"l","o","g","t","i","m","e">>, <<"t","i","m","e","s","t","a","m","p">>),
     component |-> OrElse(getValue(row, headers, <<"l","o","g","g","e","r">>, <<"c","o","m","p","o","n","e","n","t">>),
                          <<"h","a","d","o","o","p">>),
     level |-> normalizeLevel(getValue(row, headers, <<"l","e","v","e","l">>, <<"p","r","i","o","r","i","t","y">>)),
     content |-> OrElse(getValue(row, headers, <<"m","e","s","s","a","g","e">>, <<"m","s","g">>),
                        getValue(row, headers, <<"c","o","n","t","e","n","t">>, <<>>)),
     source |-> "Hadoop"]

parseSparkLog(row, headers) ==
    [timestamp |-> getValue(row, headers, <<"t","i","m","e","s","t","a","m","p">>, <<"t","i","m","e">>),
     component |-> OrElse(getValue(row, headers, <<"l","o","g","g","e","r">>, <<"c","o","m","p","o","n","e","n","t">>),
                          <<"s","p","a","r","k">>),
     level |-> normalizeLevel(getValue(row, headers, <<"l","e","v","e","l">>, <<"p","r","i","o","r","i","t","y">>)),
     content |-> OrElse(getValue(row, headers, <<"m","e","s","s","a","g","e">>, <<"m","s","g">>),
                        getValue(row, headers, <<"c","o","n","t","e","n","t">>, <<>>)),
     source |-> "Spark"]

parseOpenSSHLog(row, headers) ==
    LET content == OrElse(getValue(row, headers, <<"m","e","s","s","a","g","e">>, <<"m","s","g">>),
                          getValue(row, headers, <<"c","o","n","t","e","n","t">>, <<>>))
        lower == ToLowerCase(content)
    IN  [timestamp |-> getValue(row, headers, <<"t","i","m","e","s","t","a","m","p">>, <<"d","a","t","e">>),
         component |-> <<"s","s","h","d">>,
         level |-> IF Includes(lower, <<"e","r","r","o","r">>) \/ Includes(lower, <<"f","a","i","l","e","d">>)
                   THEN sError
                   ELSE IF Includes(lower, <<"w","a","r","n","i","n","g">>) THEN sWarning
                   ELSE sInfo,
         content |-> content,
         source |-> "OpenSSH",
         hostname |-> getValue(row, headers, <<"h","o","s","t","n","a","m","e">>, <<"h","o","s","t">>)]

\* the format tags of LogFormat (types/logs.ts)
LogFormats ==
    {"windows", "linux-syslog", "apache", "hadoop", "spark", "openssh",
     "openstack", "thunderbird", "auto"}

\* the tags parseLogRow has a case for, other than 'auto'
HandledFormats ==
    {"windows", "linux-syslog", "apache", "hadoop", "spark", "openssh"}

\* the case of parseLogRow's switch for a handled format
ParseAs(row, headers, format) ==
    CASE format = "windows" -> parseWindowsLog(row, headers)
      [] format = "linux-syslog" -> parseLinuxSyslog(row, headers)
      [] format = "apache" -> parseApacheLog(row, headers)
      [] format = "hadoop" -> parseHadoopLog(row, headers)
      [] format = "spark" -> parseSparkLog(row, headers)
      [] format = "openssh" -> parseOpenSSHLog(row, headers)

\* parseLogRow whose default case goes to the Linux parser at once
parseLogRowNoRedetect(row, headers, format) ==
    IF format \in HandledFormats THEN ParseAs(row, headers, format)
    ELSE parseLinuxSyslog(row, headers)

RECURSIVE parseLogRow(_, _, _)
parseLogRow(row, headers, format) ==
    IF format \in HandledFormats THEN ParseAs(row, headers, format)
    ELSE LET detected == detectLogFormat(headers, <<row>>)
         IN  IF detected # "auto" THEN parseLogRow(row, headers, detected)
             ELSE parseLinuxSyslog(row, headers)

-----------------------------------------------------------------------------
(* parseCSV (csvParser), from the results Papa.parse hands to `complete`:  *)
(* headers is results.meta.fields, data is results.data.                   *)

\* rows of the file handed to detectLogFormat as the sample
SampleSize == 5

\* a guard that takes no file for empty
HasNoDataNever(data) == FALSE

\* results.data.length === 0
HasNoData(data) == Len(data) = 0

sEmptyFile == <<"C","S","V"," ","f","i","l","e"," ","i","s"," ","e","m","p","t","y"," ","o","r"," ","h","a","s"," ","n","o"," ","v","a","l","i","d"," ","d","a","t","a">>

\* detectedFormat, with every row of the file as the sample
DetectedFormatAllRows(headers, data, format) ==
    IF format = "auto" THEN detectLogFormat(headers, data) ELSE format

\* detectedFormat
DetectedFormat(headers, data, format) ==
    IF format = "auto"
    THEN detectLogFormat(headers, SubSeq(data, 1, Min(SampleSize, Len(data))))
    ELSE format

JsonMember(key, value) ==
    <<"\"">> \o key \o <<"\"", ":", "\"">> \o value \o <<"\"">>

RECURSIVE JsonMembers(_, _)
JsonMembers(row, keys) ==
    IF keys = <<>> THEN <<>>
    ELSE JsonMember(Head(keys), row[Head(keys)])
           \o (IF Tail(keys) = <<>> THEN <<>>
               ELSE <<",">> \o JsonMembers(row, Tail(keys)))

\* JSON.stringify(row): the row's cells in column order
JsonStringify(row, headers) ==
    LET IsKey(h) == h \in DOMAIN row
    IN  <<"{">> \o JsonMembers(row, SelectSeq(headers, IsKey)) \o <<"}">>

\* new Date().toISOString()
sNow == <<"n","o","w">>

\* a catch branch that keeps the row out of the record's content
FallbackEntryBlank(row, headers, detectedFormat) ==
    [timestamp |-> sNow, component |-> sUnknown, level |-> sInfo,
     content |-> <<>>, source |-> detectedFormat]

\* the record of the catch branch of results.data.map
FallbackEntry(row, headers, detectedFormat) ==
    [timestamp |-> sNow, component |-> sUnknown, level |-> sInfo,
     content |-> JsonStringify(row, headers), source |-> detectedFormat]

\* the callback of results.data.map; throws says that parseLogRow threw
MapRow(row, headers, detectedFormat, throws) ==
    IF throws THEN FallbackEntry(row, headers, detectedFormat)
    ELSE parseLogRow(row, headers, detectedFormat)

\* a filter that keeps white-space-only content
KeepsLogUntrimmed(log) == log.content # <<>>

\* the predicate of .filter: log.content && log.content.trim().length > 0
KeepsLog(log) == log.content # <<>> /\ Len(Trim(log.content)) > 0

-----------------------------------------------------------------------------
(* analyzeLogDigest (actions/analyze) and the Lambda handler it delegates  *)
(* to.  What the AI collaborator answers to one generateContent call is a  *)
(* reply: the call fails (a rate limit or another error), or it gives a    *)
(* text that is not JSON, or a JSON array of items {index, severityScore}. *)
(* A severityScore is a number or, for an item without one, NaN.           *)

Number(n) == [isNumber |-> TRUE, n |-> n]

\* Math.min(limit, score) and Math.max(limit, score): NaN for NaN
MathMin(limit, score) ==
    IF score.isNumber THEN Number(Min(limit, score.n)) ELSE NaN

MathMax(limit, score) ==
    IF score.isNumber
    THEN Number(IF score.n >= limit THEN score.n ELSE limit)
    ELSE NaN

\* attempts of the local retry loop
maxRetries == 3

\* a summary that keeps the AI's score as it is
ToSummaryUnclamped(items, idx) ==
    LET found == {k \in 1..Len(items) : items[k].index = idx}
    IN  [severityScore |-> IF found = {} THEN Number(5)
                           ELSE items[SetMin(found)].severityScore]

\* the summary of the digest entry at idx (1-based): the first AI item with
\* that index, or the default item, with its score clamped
ToSummary(items, idx) ==
    LET found == {k \in 1..Len(items) : items[k].index = idx}
        aiResponse == IF found = {}
                      THEN [index |-> idx, severityScore |-> Number(5)]
                      ELSE items[SetMin(found)]
    IN  [severityScore |-> MathMax(1, MathMin(10, aiResponse.severityScore))]

\* what the Lambda handler returns for the AI's reply to its one call
handler(reply) ==
    IF reply.kind \in {"rateLimit", "error"}
    THEN [statusCode |-> 500, body |-> [kind |-> "errorBody", items |-> <<>>]]
    ELSE [statusCode |-> 200, body |-> [kind |-> reply.kind, items |-> reply.items]]

\* the kinds of Lambda body for which JSON.parse(responsePayload.body) throws
UnparsableBodies == {"badJson"}

\* nothing returned yet
NoReturn == [via |-> "none", kind |-> "none", items |-> <<>>]

-----------------------------------------------------------------------------
(* analyzeLogsWithAI: the retry loop around model.generateContent. The AI  *)
(* collaborator's reply is a rate-limit error (its message holds '429',    *)
(* 'quota' or 'rate limit'), another error (a failed call, or text that    *)
(* JSON.parse or aiResponses.find throws on), or a JSON array of items     *)
(* {index, plainEnglish}.                                                  *)

\* const models = ['gemini-2.5-flash', 'gemini-1.5-pro']
models == <<"gemini-2.5-flash", "gemini-1.5-pro">>

\* attempts of analyzeLogsWithAI's retry loop (its local maxRetries)
maxRetriesWithAI == 3

\* the loop test: attempt < maxRetries
LoopTest(a) == a < maxRetriesWithAI

\* attempt < maxRetries - 1: a rate limit is retried after a delay
CanRetry(a) == a < maxRetriesWithAI - 1

\* fault variant of HasNextModel: there is always a further model
HasNextModelAlways(i) == TRUE

\* currentModelIndex < models.length - 1 (indices from 0)
HasNextModel(i) == i < Len(models) - 1

\* fault variant of NextModelIndex: the index is not incremented
NextModelIndexStuck(i) == i

\* currentModelIndex++
NextModelIndex(i) == i + 1

\* fault variant of IsLastAttempt: the catch block never throws
IsLastAttemptNever(a) == FALSE

\* attempt === maxRetries - 1: the catch block throws
IsLastAttempt(a) == a = maxRetriesWithAI - 1

\* the insight of the log group at idx (1-based): the first AI item with that
\* index, or the default item
ToInsight(items, idx) ==
    LET found == {k \in 1..Len(items) : items[k].index = idx}
        aiResponse == IF found = {}
                      THEN [index |-> idx, plainEnglish |-> "Analysis pending..."]
                      ELSE items[SetMin(found)]
    IN  [plainEnglish |-> aiResponse.plainEnglish]

-----------------------------------------------------------------------------
(* The page: handleFileUpload, from one await to the next. State updates   *)
(* made between two awaits are rendered together, the last one winning.    *)

\* the state `error` is null
NoError == "null"

\* fault variant of FailureMessage: no message is set
FailureMessageNone(err) == NoError

\* err instanceof Error ? err.message : 'Processing failed'
FailureMessage(err) == IF err.isError THEN err.message ELSE "Processing failed"

\* aiSummaries[idx]?.severityScore || 5: 5 for a missing summary, a missing
\* score, NaN and 0
ScoreOrFive(aiSummaries, idx) ==
    IF idx \in DOMAIN aiSummaries
         /\ aiSummaries[idx].severityScore.isNumber
         /\ aiSummaries[idx].severityScore.n # 0
    THEN aiSummaries[idx].severityScore.n
    ELSE 5

\* {...d, humanMeaning, severityScore, totalOccurrences: d.frequency}
ToPattern(d, aiSummaries, idx) ==
    [component |-> d.component, level |-> d.level, frequency |-> d.frequency,
     sampleContent |-> d.sampleContent, fingerprint |-> d.fingerprint,
     severityScore |-> ScoreOrFive(aiSummaries, idx),
     totalOccurrences |-> d.frequency]

-----------------------------------------------------------------------------
(* The record lists handed to processLogs and calculateStats.              *)

cA == <<"a">>
cB == <<"b">>
cx == <<"x">>
cy == <<"y">>

\* a LogEntry (types/logs.ts)
Entry(c, l, x) ==
    [timestamp |-> <<"t">>, component |-> c, level |-> l, content |-> x,
     source |-> "Linux"]

SmallEntries ==
    {Entry(cA, l, cx) :
        l \in {sError, sWarning, sInfo, sDebug, sLowerError, sConstructor}}
    \cup {Entry(cA, sError, cy)}
    \cup {Entry(cB, l, cx) : l \in {sError, ToUpperCase(sWarning), sInfo}}

SmallLists == UNION {[1..n -> SmallEntries] : n \in 0..MaxLen}

\* the WindowsLog[] that parseCSVAsWindowsLog derives from a LogEntry[]
AsWindowsLogs(ls) ==
    [i \in 1..Len(ls) |->
        [LineId |-> NumberToString(i), Time |-> ls[i].timestamp,
         Component |-> ls[i].component, Level |-> ls[i].level,
         Content |-> ls[i].content]]

\* record lists with about DigestCap distinct clusters: n records of n
\* distinct components "c1", "c2", ..., the last dup of them seen twice
BulkLevel(pat, i) ==
    IF pat = 1 THEN sError
    ELSE <<sInfo, sError, sDebug, sWarning>>[(i % 4) + 1]

BulkEntry(pat, i, x) == Entry(<<"c">> \o NumberToString(i), BulkLevel(pat, i), x)

BulkList(prefix, n, pat, dup) ==
    prefix
    \o [i \in 1..n |-> BulkEntry(pat, i, cx)]
    \o [i \in 1..dup |-> BulkEntry(pat, n - dup + i, cy)]

BulkLists ==
    {BulkList(prefix, n, pat, dup) :
        prefix \in {<<>>, <<Entry(cA, sInfo, cx)>>},
        n \in (DigestCap - 1)..(DigestCap + BulkExtra),
        pat \in {1, 2},
        dup \in {0, 2}}
    \cup
    {BulkList(<<Entry(cA, sConstructor, cx)>>, n, 1, dup) :
        n \in (DigestCap - 1)..(DigestCap + BulkExtra),
        dup \in {0, 2}}

\* compareFn is a consistent comparison function for the clusters ps
\* (ECMAScript, Array.prototype.sort): only then is the sort order defined by
\* the language; otherwise it is implementation-defined
ConsistentCompareFn(ps) ==
    \A a, b, c \in 1..Len(ps) :
        /\ CompareFn(ps[a], ps[a]) = 0
        /\ (CompareFn(ps[a], ps[b]) < 0) <=> (CompareFn(ps[b], ps[a]) > 0)
        /\ (CompareFn(ps[a], ps[b]) = 0 /\ CompareFn(ps[b], ps[c]) = 0)
             => CompareFn(ps[a], ps[c]) = 0
        /\ (CompareFn(ps[a], ps[b]) < 0 /\ CompareFn(ps[b], ps[c]) < 0)
             => CompareFn(ps[a], ps[c]) < 0

\* the short record lists of the model: those for which the language defines
\* what patterns.sort returns (as it does for every list of BulkLists)
InputLists ==
    {l \in SmallLists \cup {AsWindowsLogs(l0) : l0 \in SmallLists} :
        ConsistentCompareFn(Clusters(UnifiedLogs(l)))}

\* records whose component or level holds a hyphen (the Windows parser
\* passes both cells on verbatim)
HyphenEntries ==
    {Entry(<<"a","-","b">>, <<"c">>, cx), Entry(cA, <<"b","-","c">>, cy),
     Entry(cA, <<"c">>, cx)}

HyphenLists == UNION {[1..n -> HyphenEntries] : n \in 1..MaxLen}

NoStats == [totalLogs |-> 0, uniquePatterns |-> 0, errorCount |-> 0, warningCount |-> 0]

-----------------------------------------------------------------------------
(* The strings handed to normalizeLevel: a first word in lower case, upper *)
(* case or capitalised, an optional blank, a second word, and blanks       *)
(* around the whole.                                                       *)

Digits == {NumberToString(n) : n \in 0..8}

OtherWords == {<<>>, <<"x">>, <<"1","0">>, <<"0","3">>, <<"o","k">>}

FirstWords == ErrorWords \cup WarningWords \cup InfoWords \cup DebugWords
                \cup Digits \cup OtherWords

SecondWords == {<<>>, <<"x">>, <<"3">>, <<"e","r","r","o","r">>, <<"e","m","e","r","g">>, <<"w","a","r","n","i","n","g">>, <<"n","o","t","i","c","e">>, <<"t","r","a","c","e">>}

Capitalize(w) ==
    IF w = <<>> THEN w ELSE <<ToUpperChar(w[1])>> \o SubSeq(w, 2, Len(w))

Blanks(n) == [i \in 1..n |-> " "]

LevelInputs ==
    {Blanks(l) \o w1 \o sep \o w2 \o Blanks(r) :
        l \in 0..MaxPad, r \in 0..MaxPad,
        w1 \in FirstWords \cup {ToUpperCase(w) : w \in FirstWords}
                 \cup {Capitalize(w) : w \in FirstWords},
        sep \in {<<>>, <<" ">>, <<"\t">>},
        w2 \in SecondWords}

-----------------------------------------------------------------------------
(* The header rows and rows handed to detectLogFormat, parseLogRow and     *)
(* parseCSV.                                                               *)

\* most rows of a file whose rows are drawn freely (longer files follow one
\* of the shapes of LongFiles)
MaxRows == 2

HeaderLists ==
    {<<<<"L","i","n","e","I","d">>, <<"T","i","m","e">>, <<"C","o","m","p","o","n","e","n","t">>, <<"L","e","v","e","l">>, <<"C","o","n","t","e","n","t">>>>,
     <<<<"l","i","n","e","i","d">>, <<"l","e","v","e","l">>, <<"c","o","m","p","o","n","e","n","t">>>>,
     <<<<"t","i","m","e","s","t","a","m","p">>, <<"h","o","s","t","n","a","m","e">>, <<"p","r","o","g","r","a","m">>, <<"l","e","v","e","l">>, <<"m","e","s","s","a","g","e">>>>,
     <<<<"T","i","m","e","s","t","a","m","p">>, <<"H","o","s","t">>, <<"s","e","r","v","i","c","e">>, <<"p","r","o","g","r","a","m">>, <<"p","r","i","o","r","i","t","y">>, <<"m","s","g">>>>,
     <<<<"d","a","t","e">>, <<"t","i","m","e">>, <<"h","o","s","t","n","a","m","e">>, <<"d","a","e","m","o","n">>, <<"l","o","g","g","e","r">>, <<"c","o","n","t","e","n","t">>>>,
     <<<<"p","r","o","g","r","a","m">>, <<"c","o","m","p","o","n","e","n","t">>, <<"l","o","g","g","e","r">>, <<"s","e","v","e","r","i","t","y">>, <<"m","e","s","s","a","g","e">>>>,
     <<<<"r","e","m","o","t","e","h","o","s","t">>, <<"r","e","q","u","e","s","t">>, <<"s","t","a","t","u","s">>>>,
     <<<<"t","i","m","e">>, <<"m","e","t","h","o","d">>, <<"r","e","q","u","e","s","t">>, <<"c","o","d","e">>>>,
     <<<<"l","o","g","t","i","m","e">>, <<"l","e","v","e","l">>, <<"l","o","g","g","e","r">>, <<"m","e","s","s","a","g","e">>>>,
     <<<<"L","o","g","T","i","m","e">>, <<"P","r","i","o","r","i","t","y">>, <<"c","o","m","p","o","n","e","n","t">>, <<"m","s","g">>>>,
     <<<<"t","i","m","e","s","t","a","m","p">>, <<"l","o","g","g","e","r">>, <<"l","e","v","e","l">>, <<"c","o","n","t","e","n","t">>>>,
     <<<<"t","i","m","e","s","t","a","m","p">>, <<"h","o","s","t","n","a","m","e">>, <<"l","o","g","g","e","r">>, <<"s","t","a","t","u","s">>>>,
     <<<<"L","i","n","e","I","d">>, <<"C","o","m","p","o","n","e","n","t">>, <<"L","e","v","e","l">>, <<"s","t","a","t","u","s">>, <<"l","o","g","t","i","m","e">>>>,
     <<<<"l","o","g","t","i","m","e">>, <<"l","e","v","e","l">>, <<"t","i","m","e","s","t","a","m","p">>, <<"l","o","g","g","e","r">>>>,
     <<<<"s","t","a","t","u","s">>, <<"l","o","g","t","i","m","e">>, <<"p","r","i","o","r","i","t","y">>>>,
     <<<<"l","o","g","g","e","r">>, <<"t","i","m","e","s","t","a","m","p">>, <<"r","e","q","u","e","s","t">>>>,
     <<<<"f","o","o">>, <<"b","a","r">>>>,
     <<<<"m","e","s","s","a","g","e">>, <<"t","i","m","e","s","t","a","m","p">>>>,
     <<<<>>, <<"L","o","g","g","e","r">>, <<"c","o","n","t","e","n","t">>>>,
     <<>>}

\* the header rows of the files handed to parseCSV
CsvHeaderLists ==
    {<<<<"L","i","n","e","I","d">>, <<"T","i","m","e">>, <<"C","o","m","p","o","n","e","n","t">>, <<"L","e","v","e","l">>, <<"C","o","n","t","e","n","t">>>>,
     <<<<"t","i","m","e","s","t","a","m","p">>, <<"h","o","s","t","n","a","m","e">>, <<"p","r","o","g","r","a","m">>, <<"l","e","v","e","l">>, <<"m","e","s","s","a","g","e">>>>,
     <<<<"r","e","m","o","t","e","h","o","s","t">>, <<"r","e","q","u","e","s","t">>, <<"s","t","a","t","u","s">>>>,
     <<<<"f","o","o">>, <<"b","a","r">>>>,
     <<<<"m","e","s","s","a","g","e">>, <<"t","i","m","e","s","t","a","m","p">>>>,
     <<>>}

LevelColumns == {<<"l","e","v","e","l">>, <<"p","r","i","o","r","i","t","y">>, <<"s","e","v","e","r","i","t","y">>}
ContentColumns == {<<"m","e","s","s","a","g","e">>, <<"m","s","g">>, <<"c","o","n","t","e","n","t">>}
ComponentColumns ==
    {<<"p","r","o","g","r","a","m">>, <<"s","e","r","v","i","c","e">>, <<"c","o","m","p","o","n","e","n","t">>, <<"d","a","e","m","o","n">>, <<"l","o","g","g","e","r">>}
StatusColumns == {<<"s","t","a","t","u","s">>, <<"c","o","d","e">>}

\* a cell that makes a row look like an OpenSSH row to detectLogFormat
sSshdUp == <<"S","S","H","D"," ","u","p">>

\* the cells drawn for the column named h; rich says that empty cells and
\* the several status codes are drawn too
ColumnValues(h, isFirst, rich) ==
    LET name == ToLowerCase(h)
        own == IF name \in ContentColumns
               THEN {<<>>, <<" ">>, <<"l","o","g","i","n"," ","f","a","i","l","e","d">>}
               ELSE IF name \in LevelColumns
               THEN IF rich THEN {<<>>, <<"E","R","R">>, sLowerError} ELSE {<<"E","R","R">>}
               ELSE IF name \in StatusColumns
               THEN IF rich THEN {<<"5","0","0">>, <<"4","0","4">>, <<"a","b","c">>} ELSE {<<"4","0","4">>}
               ELSE IF name \in ComponentColumns
               THEN IF rich THEN {<<>>, <<"v">> \o h} ELSE {<<"v">> \o h}
               ELSE {<<"v">> \o h}
    IN  own \cup (IF isFirst THEN {sSshdUp} ELSE {})

\* the rows with a cell under each of the first n headers
RECURSIVE RowsUpTo(_, _, _)
RowsUpTo(headers, n, rich) ==
    IF n = 0 THEN {<<>>}
    ELSE {[k \in DOMAIN r \cup {headers[n]} |->
              IF k = headers[n] THEN v ELSE r[k]] :
            r \in RowsUpTo(headers, n - 1, rich),
            v \in ColumnValues(headers[n], n = 1, rich)}

\* the rows of a file with these headers: full lines, and lines that end
\* before the last column (an empty line is skipped by Papa.parse)
Rows(headers) ==
    IF headers = <<>> THEN {}
    ELSE RowsUpTo(headers, Len(headers), TRUE)
           \cup (IF Len(headers) > 1
                 THEN RowsUpTo(headers, Len(headers) - 1, TRUE) ELSE {})

\* the rows the files of the model are built from
FileRows(headers) ==
    IF headers = <<>> THEN {} ELSE RowsUpTo(headers, Len(headers), FALSE)

\* files one row longer than the sample: one row repeated, another row last
LongFiles(headers) ==
    {[i \in 1..(SampleSize + 1) |-> IF i = SampleSize + 1 THEN r2 ELSE r1] :
        r1 \in FileRows(headers), r2 \in FileRows(headers)}

Files(headers) ==
    UNION {[1..n -> FileRows(headers)] : n \in 0..MaxRows}
      \cup LongFiles(headers)

\* no ingestion is under way
CsvIdle ==
    /\ fields = <<>>
    /\ resultsData = <<>>
    /\ formatArg = "auto"
    /\ throwsAt = {}
    /\ chosenFormat = "none"
    /\ mapped = <<>>
    /\ entries = <<>>
    /\ errorMessage = <<>>
    /\ outcome = "idle"

\* nothing has run on the arguments yet
CsvPending ==
    /\ chosenFormat = "none"
    /\ mapped = <<>>
    /\ entries = <<>>
    /\ errorMessage = <<>>
    /\ outcome = "pending"

\* most digest entries, most items of an AI reply, and greatest item index
MaxDigest == 2

\* the severity scores the AI collaborator is taken to give
ScoreValues == {Number(0), Number(1), Number(10), Number(11), NaN}

AiItems == [index : 1..MaxDigest, severityScore : ScoreValues]

AiReplies ==
    {[kind |-> k, items |-> <<>>] : k \in {"rateLimit", "error", "badJson"}}
      \cup {[kind |-> "array", items |-> items] :
              items \in UNION {[1..n -> AiItems] : n \in 0..MaxDigest}}

\* no analysis is under way
AnalyzeIdle ==
    /\ pc = "idle"
    /\ attempt = 0
    /\ digestLength = 0
    /\ apiKeySet = FALSE
    /\ lambdaConfigured = FALSE
    /\ returned = NoReturn

\* most generateContent calls of one analyzeLogsWithAI call that the model
\* follows
MaxCalls == 8

\* the arrays the AI collaborator is taken to reply with: up to MaxDigest
\* items {index, plainEnglish}
InsightArrays ==
    UNION {[1..n -> [index : 1..MaxDigest,
                     plainEnglish : {"disk full", "login failed"}]] :
             n \in 0..MaxDigest}

\* most nested parseLogRow calls that the model follows
MaxFrames == 3

\* the record lists parseCSV resolves with on the page: up to MaxRows
\* records, for which the language defines the digest's order
PageLogs ==
    {l \in UNION {[1..n -> SmallEntries] : n \in 0..MaxRows} :
        ConsistentCompareFn(Clusters(l))}

\* what analyzeLogDigest resolves with, as far as the page reads it: the
\* summaries at the first positions of the digest (none for an object that is
\* not an array)
PageSummaries(n) ==
    UNION {[1..k -> [severityScore : {Number(0), Number(7)}]] : k \in 0..n}

\* what parseCSV or analyzeLogDigest rejects with, or a statement of the try
\* block throws: an Error with a message, or another value
PageErrors ==
    {[isError |-> TRUE, message |-> "CSV file is empty or has no valid data"],
     [isError |-> TRUE, message |-> "GEMINI_API_KEY environment variable is not set"],
     [isError |-> FALSE, message |-> ""]}

\* no analyzeLogsWithAI call is under way
AiIdle ==
    /\ aiPc = "idle"
    /\ aiAttempt = 0
    /\ currentModelIndex = 0
    /\ calls = 0
    /\ lastError = "none"
    /\ iterationEnd = "none"
    /\ groupCount = 0
    /\ insights = <<>>

\* the page is not mounted
PageIdle ==
    /\ pagePc = "idle"
    /\ loading = FALSE
    /\ pageStatus = "idle"
    /\ pageError = NoError
    /\ analyzedPatterns = <<>>

\* no step-by-step parseLogRow call is under way
FramesIdle == frames = <<>>

-----------------------------------------------------------------------------
(* Actions.                                                                *)

\* processLogs(logs)
ProcessLogs ==
    /\ patterns' = SortPatterns(Clusters(UnifiedLogs(logs)))
    /\ digest' = [i \in 1..Len(TopPatterns(patterns')) |->
                    ToDigestEntry(TopPatterns(patterns')[i])]
    /\ digestDone' = TRUE
    /\ UNCHANGED <<logs, stats, statsDone, levelVars, csvVars, analyzeVars,
                   aiVars, pageVars, frames>>

\* calculateStats(logs)
CalculateStats ==
    /\ stats' = [totalLogs |-> Len(UnifiedLogs(logs)),
                 uniquePatterns |-> UniquePatterns(UnifiedLogs(logs)),
                 errorCount |-> CountLevel(UnifiedLogs(logs), sLowerError),
                 warningCount |-> CountLevel(UnifiedLogs(logs), sLowerWarning)]
    /\ statsDone' = TRUE
    /\ UNCHANGED <<logs, patterns, digest, digestDone, levelVars, csvVars,
                   analyzeVars,
                   aiVars, pageVars, frames>>

DigestIdle ==
    /\ logs = <<>>
    /\ patterns = <<>>
    /\ digest = <<>>
    /\ digestDone = FALSE
    /\ stats = NoStats
    /\ statsDone = FALSE

LevelIdle ==
    /\ levelIn = <<>>
    /\ levelOut = <<>>
    /\ levelDone = FALSE

\* one analysis run: a record list, then processLogs and calculateStats on it
Init ==
    /\ \/ logs \in InputLists
       \/ logs \in BulkLists
       \/ logs \in HyphenLists
    /\ patterns = <<>>
    /\ digest = <<>>
    /\ digestDone = FALSE
    /\ stats = NoStats
    /\ statsDone = FALSE
    /\ LevelIdle
    /\ CsvIdle
    /\ AnalyzeIdle
    /\ AiIdle
    /\ PageIdle
    /\ FramesIdle

Next == ProcessLogs \/ CalculateStats

Spec == Init /\ [][Next]_vars

\* normalizeLevel(levelIn)
NormalizeLevel ==
    /\ levelOut' = normalizeLevel(levelIn)
    /\ levelDone' = TRUE
    /\ UNCHANGED <<levelIn, digestVars, csvVars, analyzeVars,
                   aiVars, pageVars, frames>>

\* one call of normalizeLevel on a string
InitLevel ==
    /\ levelIn \in LevelInputs
    /\ levelOut = <<>>
    /\ levelDone = FALSE
    /\ DigestIdle
    /\ CsvIdle
    /\ AnalyzeIdle
    /\ AiIdle
    /\ PageIdle
    /\ FramesIdle

NextLevel == NormalizeLevel

SpecLevel == InitLevel /\ [][NextLevel]_vars

-----------------------------------------------------------------------------
(* Format detection, row parsing and ingestion, each as a specification of *)
(* its own.                                                                *)

\* detectLogFormat(headers, sampleRows)
DetectLogFormat ==
    /\ outcome = "pending"
    /\ chosenFormat' = detectLogFormat(fields, resultsData)
    /\ outcome' = "returned"
    /\ UNCHANGED <<fields, resultsData, formatArg, throwsAt, mapped, entries,
                   errorMessage, digestVars, levelVars, analyzeVars,
                   aiVars, pageVars, frames>>

\* one call of detectLogFormat on a header row and sample rows
InitDetect ==
    /\ fields \in HeaderLists
    /\ resultsData \in Files(fields)
    /\ formatArg = "auto"
    /\ throwsAt = {}
    /\ CsvPending
    /\ DigestIdle
    /\ LevelIdle
    /\ AnalyzeIdle
    /\ AiIdle
    /\ PageIdle
    /\ FramesIdle

NextDetect == DetectLogFormat

SpecDetect == InitDetect /\ [][NextDetect]_vars

\* parseLogRow(row, headers, format) on the one row of resultsData
ParseLogRow ==
    /\ outcome = "pending"
    /\ entries' = <<parseLogRow(resultsData[1], fields, formatArg)>>
    /\ outcome' = "returned"
    /\ UNCHANGED <<fields, resultsData, formatArg, throwsAt, chosenFormat, mapped,
                   errorMessage, digestVars, levelVars, analyzeVars,
                   aiVars, pageVars, frames>>

\* one call of parseLogRow on a row, its headers and a format tag
InitRow ==
    /\ fields \in HeaderLists
    /\ \E row \in Rows(fields) : resultsData = <<row>>
    /\ formatArg \in LogFormats
    /\ throwsAt = {}
    /\ CsvPending
    /\ DigestIdle
    /\ LevelIdle
    /\ AnalyzeIdle
    /\ AiIdle
    /\ PageIdle
    /\ FramesIdle

NextRow == ParseLogRow

SpecRow == InitRow /\ [][NextRow]_vars

\* the `complete` callback of parseCSV(file, format); throwsAt holds the
\* positions of the rows for which the call of parseLogRow throws
ParseCSV ==
    /\ outcome = "pending"
    /\ IF HasNoData(resultsData)
       THEN /\ outcome' = "rejected"
            /\ errorMessage' = sEmptyFile
            /\ UNCHANGED <<chosenFormat, mapped, entries>>
       ELSE /\ chosenFormat' = DetectedFormat(fields, resultsData, formatArg)
            /\ mapped' = [i \in 1..Len(resultsData) |->
                             MapRow(resultsData[i], fields, chosenFormat',
                                    i \in throwsAt)]
            /\ entries' = SelectSeq(mapped', KeepsLog)
            /\ outcome' = "resolved"
            /\ UNCHANGED errorMessage
    /\ UNCHANGED <<fields, resultsData, formatArg, throwsAt, digestVars, levelVars,
                   analyzeVars,
                   aiVars, pageVars, frames>>

\* the formats parseCSV is called with
CsvFormats == {"auto", "windows", "openstack"}

\* one call of parseCSV on a parsed file
InitCsv ==
    /\ fields \in CsvHeaderLists
    /\ resultsData \in Files(fields)
    /\ formatArg \in CsvFormats
    /\ throwsAt \in {{}} \cup {{i} : i \in {1, Len(resultsData)} \cap DOMAIN resultsData}
    /\ CsvPending
    /\ DigestIdle
    /\ LevelIdle
    /\ AnalyzeIdle
    /\ AiIdle
    /\ PageIdle
    /\ FramesIdle

NextCsv == ParseCSV

SpecCsv == InitCsv /\ [][NextCsv]_vars

-----------------------------------------------------------------------------
(* analyzeLogDigest(digest), one action for each stretch between awaits.   *)

\* from the call to the first await: the API key check, then the Lambda
\* invocation if one is configured, else the first generateContent call
AnalyzeStart ==
    /\ pc = "start"
    /\ pc' = IF ~apiKeySet THEN "thrown"
             ELSE IF lambdaConfigured THEN "lambda"
             ELSE "generate"
    /\ UNCHANGED <<attempt, digestLength, apiKeySet, lambdaConfigured,
                   returned, digestVars, levelVars, csvVars,
                   aiVars, pageVars, frames>>

\* lambdaClient.send throws, or the response has FunctionError set, or its
\* payload is not JSON: the catch falls through to the local path
LambdaFails ==
    /\ pc = "lambda"
    /\ pc' = "generate"
    /\ UNCHANGED <<attempt, digestLength, apiKeySet, lambdaConfigured,
                   returned, digestVars, levelVars, csvVars,
                   aiVars, pageVars, frames>>

\* lambdaClient.send resolves with what the handler returned
LambdaResponds ==
    /\ pc = "lambda"
    /\ \E reply \in AiReplies :
          LET responsePayload == handler(reply)
          IN  IF responsePayload.body.kind \in UnparsableBodies
              THEN /\ pc' = "generate"
                   /\ UNCHANGED returned
              ELSE /\ pc' = "returned"
                   /\ returned' = [via |-> "lambda",
                                   kind |-> responsePayload.body.kind,
                                   items |-> responsePayload.body.items]
    /\ UNCHANGED <<attempt, digestLength, apiKeySet, lambdaConfigured,
                   digestVars, levelVars, csvVars,
                   aiVars, pageVars, frames>>

\* model.generateContent settles in the local retry loop
GenerateSettles ==
    /\ pc = "generate"
    /\ \E reply \in AiReplies :
          CASE reply.kind = "array" ->
                  /\ pc' = "returned"
                  /\ returned' = [via |-> "local", kind |-> "array",
                                  items |-> [idx \in 1..digestLength |->
                                               ToSummary(reply.items, idx)]]
            [] reply.kind = "rateLimit" ->
                  /\ pc' = "delay"
                  /\ UNCHANGED returned
            [] OTHER ->
                  /\ pc' = "thrown"
                  /\ UNCHANGED returned
    /\ UNCHANGED <<attempt, digestLength, apiKeySet, lambdaConfigured,
                   digestVars, levelVars, csvVars,
                   aiVars, pageVars, frames>>

\* the retry delay is over: continue, attempt++, and the loop test
RetryDelayOver ==
    /\ pc = "delay"
    /\ attempt' = attempt + 1
    /\ pc' = IF attempt + 1 < maxRetries THEN "generate" ELSE "thrown"
    /\ UNCHANGED <<digestLength, apiKeySet, lambdaConfigured, returned,
                   digestVars, levelVars, csvVars,
                   aiVars, pageVars, frames>>

\* one call of analyzeLogDigest on a digest
InitAnalyze ==
    /\ pc = "start"
    /\ attempt = 0
    /\ digestLength \in 0..MaxDigest
    /\ apiKeySet \in BOOLEAN
    /\ lambdaConfigured \in BOOLEAN
    /\ returned = NoReturn
    /\ DigestIdle
    /\ LevelIdle
    /\ CsvIdle
    /\ AiIdle
    /\ PageIdle
    /\ FramesIdle

NextAnalyze ==
    \/ AnalyzeStart
    \/ LambdaFails
    \/ LambdaResponds
    \/ GenerateSettles
    \/ RetryDelayOver

SpecAnalyze == InitAnalyze /\ [][NextAnalyze]_vars

\* from the call to the first await: the API key check and the loop test
AiStart ==
    /\ aiPc = "start"
    /\ aiPc' = IF ~apiKeySet THEN "thrownNoKey"
               ELSE IF LoopTest(aiAttempt) THEN "generate"
               ELSE "thrownAfterLoop"
    /\ UNCHANGED <<aiAttempt, currentModelIndex, calls, lastError,
                   iterationEnd, groupCount, insights,
                   digestVars, levelVars, csvVars, analyzeVars, pageVars,
                   frames>>

\* model.generateContent resolves with a JSON array: return insights
AiGenerateReturns ==
    /\ aiPc = "generate"
    /\ calls < MaxCalls
    /\ calls' = calls + 1
    /\ \E aiResponses \in InsightArrays :
          insights' = [idx \in 1..groupCount |-> ToInsight(aiResponses, idx)]
    /\ iterationEnd' = "return"
    /\ aiPc' = "returned"
    /\ UNCHANGED <<aiAttempt, currentModelIndex, lastError, groupCount,
                   digestVars, levelVars, csvVars, analyzeVars, pageVars,
                   frames>>

\* model.generateContent rejects, or its text cannot be used: the catch block
\* up to its await, its throw or its end (then attempt++ and the loop test)
AiGenerateFails ==
    /\ aiPc = "generate"
    /\ calls < MaxCalls
    /\ calls' = calls + 1
    /\ \E kind \in {"rateLimit", "error"} :
          /\ lastError' = kind
          /\ IF kind = "rateLimit" /\ CanRetry(aiAttempt)
             THEN /\ aiPc' = "retryDelay"
                  /\ UNCHANGED <<aiAttempt, currentModelIndex, iterationEnd>>
             ELSE IF kind = "rateLimit" /\ HasNextModel(currentModelIndex)
             THEN /\ currentModelIndex' = NextModelIndex(currentModelIndex)
                  /\ aiAttempt' = -1
                  /\ aiPc' = "switchDelay"
                  /\ UNCHANGED iterationEnd
             ELSE IF IsLastAttempt(aiAttempt)
             THEN /\ aiPc' = "thrownAfterAttempts"
                  /\ iterationEnd' = "throw"
                  /\ UNCHANGED <<aiAttempt, currentModelIndex>>
             ELSE /\ iterationEnd' = "catchEnd"
                  /\ aiAttempt' = aiAttempt + 1
                  /\ aiPc' = IF LoopTest(aiAttempt + 1) THEN "generate"
                             ELSE "thrownAfterLoop"
                  /\ UNCHANGED currentModelIndex
    /\ UNCHANGED <<groupCount, insights,
                   digestVars, levelVars, csvVars, analyzeVars, pageVars,
                   frames>>

\* the wait before a retry or after a model switch is over: continue,
\* attempt++, and the loop test
AiDelayOver ==
    /\ aiPc \in {"retryDelay", "switchDelay"}
    /\ iterationEnd' = "continue"
    /\ aiAttempt' = aiAttempt + 1
    /\ aiPc' = IF LoopTest(aiAttempt + 1) THEN "generate" ELSE "thrownAfterLoop"
    /\ UNCHANGED <<currentModelIndex, calls, lastError, groupCount, insights,
                   digestVars, levelVars, csvVars, analyzeVars, pageVars,
                   frames>>

\* one call of analyzeLogsWithAI on a list of log groups
InitAi ==
    /\ aiPc = "start"
    /\ aiAttempt = 0
    /\ currentModelIndex = 0
    /\ calls = 0
    /\ lastError = "none"
    /\ iterationEnd = "none"
    /\ groupCount \in 0..MaxDigest
    /\ insights = <<>>
    /\ pc = "idle"
    /\ attempt = 0
    /\ digestLength = 0
    /\ apiKeySet \in BOOLEAN
    /\ lambdaConfigured = FALSE
    /\ returned = NoReturn
    /\ DigestIdle
    /\ LevelIdle
    /\ CsvIdle
    /\ PageIdle
    /\ FramesIdle

NextAi ==
    \/ AiStart
    \/ AiGenerateReturns
    \/ AiGenerateFails
    \/ AiDelayOver

SpecAi == InitAi /\ [][NextAi]_vars

\* every generateContent call and every wait completes
SpecAiLive == SpecAi /\ WF_vars(NextAi)

\* the innermost parseLogRow call is in one of the six cases, or in the
\* default case with nothing detected: it returns without a further call
InnermostReturns ==
    /\ outcome = "pending"
    /\ frames # <<>>
    /\ \/ frames[Len(frames)] \in HandledFormats
       \/ detectLogFormat(fields, <<resultsData[1]>>) = "auto"

\* the innermost parseLogRow call returns its record; every caller returns
\* that record as it is
RowReturns ==
    /\ InnermostReturns
    /\ entries' = <<IF frames[Len(frames)] \in HandledFormats
                    THEN ParseAs(resultsData[1], fields, frames[Len(frames)])
                    ELSE parseLinuxSyslog(resultsData[1], fields)>>
    /\ outcome' = "returned"
    /\ UNCHANGED <<fields, resultsData, formatArg, throwsAt, chosenFormat, mapped,
                   errorMessage, frames, digestVars, levelVars, analyzeVars,
                   aiVars, pageVars>>

\* the innermost parseLogRow call is in the default case and calls
\* parseLogRow(row, headers, detected)
RowRecurses ==
    /\ outcome = "pending"
    /\ frames # <<>>
    /\ Len(frames) < MaxFrames
    /\ frames[Len(frames)] \notin HandledFormats
    /\ LET detected == detectLogFormat(fields, <<resultsData[1]>>)
       IN  /\ detected # "auto"
           /\ frames' = Append(frames, detected)
    /\ UNCHANGED <<fields, resultsData, formatArg, throwsAt, chosenFormat, mapped,
                   entries, errorMessage, outcome, digestVars, levelVars,
                   analyzeVars, aiVars, pageVars>>

\* one call of parseLogRow on a row, its headers and a format tag, followed
\* call by call
InitFrames ==
    /\ fields \in HeaderLists
    /\ \E row \in Rows(fields) : resultsData = <<row>>
    /\ formatArg \in LogFormats
    /\ frames = <<formatArg>>
    /\ throwsAt = {}
    /\ CsvPending
    /\ DigestIdle
    /\ LevelIdle
    /\ AnalyzeIdle
    /\ AiIdle
    /\ PageIdle

NextFrames == RowReturns \/ RowRecurses

SpecFrames == InitFrames /\ [][NextFrames]_vars

\* a started call runs on: a nested call that can be made is made, and a
\* call that can return does (the RowReturns steps are the steps that end the
\* call)
SpecFramesLive ==
    /\ SpecFrames
    /\ WF_vars(RowRecurses)
    /\ WF_outcome(InnermostReturns /\ outcome' = "returned")

\* a change event without a file: `if (!file) return`
UploadWithoutFile ==
    /\ pagePc \in {"ready", "finished"}
    /\ UNCHANGED vars

\* a change event with a file, up to `await parseCSV(file, 'auto')`
UploadStarts ==
    /\ pagePc \in {"ready", "finished"}
    /\ loading' = TRUE
    /\ pageError' = NoError
    /\ analyzedPatterns' = <<>>
    /\ stats' = NoStats
    /\ statsDone' = FALSE
    /\ pageStatus' = "parsing"
    /\ logs' = <<>>
    /\ patterns' = <<>>
    /\ digest' = <<>>
    /\ digestDone' = FALSE
    /\ pagePc' = "parseCSV"
    /\ UNCHANGED <<levelVars, csvVars, analyzeVars, aiVars, frames>>

\* parseCSV resolves: up to the await of the 100 ms timeout
ParseResolves ==
    /\ pagePc = "parseCSV"
    /\ logs' \in PageLogs
    /\ pageStatus' = "processing"
    /\ pagePc' = "timeout"
    /\ UNCHANGED <<patterns, digest, digestDone, stats, statsDone, loading,
                   pageError, analyzedPatterns,
                   levelVars, csvVars, analyzeVars, aiVars, frames>>

\* the timeout is over: processLogs, calculateStats, up to
\* `await analyzeLogDigest(digest)`
TimeoutOver ==
    /\ pagePc = "timeout"
    /\ patterns' = SortPatterns(Clusters(UnifiedLogs(logs)))
    /\ digest' = processLogs(logs)
    /\ digestDone' = TRUE
    /\ stats' = calculateStats(logs)
    /\ statsDone' = TRUE
    /\ pageStatus' = "analyzing"
    /\ pagePc' = "analyzeLogDigest"
    /\ UNCHANGED <<logs, loading, pageError, analyzedPatterns,
                   levelVars, csvVars, analyzeVars, aiVars, frames>>

\* analyzeLogDigest resolves: the patterns, 'complete', and the finally block
AnalyzeResolves ==
    /\ pagePc = "analyzeLogDigest"
    /\ \E aiSummaries \in PageSummaries(Len(digest)) :
          analyzedPatterns' =
              [idx \in 1..Len(digest) |-> ToPattern(digest[idx], aiSummaries, idx)]
    /\ pageStatus' = "complete"
    /\ loading' = FALSE
    /\ pagePc' = "finished"
    /\ UNCHANGED <<digestVars, pageError,
                   levelVars, csvVars, analyzeVars, aiVars, frames>>

\* parseCSV rejects: the catch block and the finally block
ParseRejects ==
    /\ pagePc = "parseCSV"
    /\ \E err \in PageErrors : pageError' = FailureMessage(err)
    /\ pageStatus' = "idle"
    /\ loading' = FALSE
    /\ pagePc' = "finished"
    /\ UNCHANGED <<digestVars, analyzedPatterns,
                   levelVars, csvVars, analyzeVars, aiVars, frames>>

\* analyzeLogDigest rejects, or digest.map throws on what it resolved with:
\* the catch block and the finally block
AnalyzeRejects ==
    /\ pagePc = "analyzeLogDigest"
    /\ \E err \in PageErrors : pageError' = FailureMessage(err)
    /\ pageStatus' = "idle"
    /\ loading' = FALSE
    /\ pagePc' = "finished"
    /\ UNCHANGED <<digestVars, analyzedPatterns,
                   levelVars, csvVars, analyzeVars, aiVars, frames>>

\* the mounted page before the first upload
InitPage ==
    /\ pagePc = "ready"
    /\ loading = FALSE
    /\ pageStatus = "idle"
    /\ pageError = NoError
    /\ analyzedPatterns = <<>>
    /\ DigestIdle
    /\ LevelIdle
    /\ CsvIdle
    /\ AnalyzeIdle
    /\ AiIdle
    /\ FramesIdle

NextPage ==
    \/ UploadWithoutFile
    \/ UploadStarts
    \/ ParseResolves
    \/ TimeoutOver
    \/ AnalyzeResolves
    \/ ParseRejects
    \/ AnalyzeRejects

SpecPage == InitPage /\ [][NextPage]_vars

-----------------------------------------------------------------------------
(* Properties of the digest builder and the stats aggregator.              *)

\* the record list as both functions read it
U == UnifiedLogs(logs)

DistinctFingerprints == {Fingerprint(U[i]) : i \in 1..Len(U)}

\* the first record, in input order, with fingerprint fp
FirstIndex(fp) == SetMin({i \in 1..Len(U) : Fingerprint(U[i]) = fp})

\* the priority table of the specification: Error=3, Warning=2, Info=1,
\* anything else 0
SpecPriority(level) ==
    IF level = sError THEN 3
    ELSE IF level = sWarning THEN 2
    ELSE IF level = sInfo THEN 1
    ELSE 0

\* a (frequency fa, level la) does not rank below (fb, lb)
RanksNotBelow(fa, la, fb, lb) ==
    fa > fb \/ (fa = fb /\ SpecPriority(la) >= SpecPriority(lb))

SameLetter(c, d) ==
    c = d \/ \E k \in 1..Len(UpperChars) : {c, d} = {UpperChars[k], LowerChars[k]}

EqualsIgnoreCase(s, t) ==
    Len(s) = Len(t) /\ \A i \in 1..Len(s) : SameLetter(s[i], t[i])

\* C1: the digest's length is min(100, number of distinct fingerprints among
\* the records), so never more than 100.
Thm_C1_DigestLength ==
    digestDone =>
        /\ Len(digest) = Min(100, Cardinality(DistinctFingerprints))
        /\ Len(digest) <= 100

Wit_C1_Truncated ==
    /\ digestDone
    /\ Cardinality(DistinctFingerprints) > 100
    /\ Len(digest) = 100

\* C2: every adjacent pair (a, b) of the digest has a.frequency > b.frequency,
\* or equal frequencies and priority(a.level) >= priority(b.level), with
\* priority Error=3, Warning=2, Info=1 and 0 for any other level.
Cex_C2_AdjacentOrder ==
    digestDone =>
        \A i \in 1..(Len(digest) - 1) :
            RanksNotBelow(digest[i].frequency, digest[i].level,
                          digest[i + 1].frequency, digest[i + 1].level)

\* C3: every cluster left out of the digest ranks no higher than every entry
\* kept in it.
Cex_C3_OnlyLowerRankedDropped ==
    digestDone =>
        \A d \in 1..Len(patterns) :
            (\A k \in 1..Len(digest) :
                digest[k].fingerprint # patterns[d].fingerprint)
            => \A k \in 1..Len(digest) :
                  RanksNotBelow(digest[k].frequency, digest[k].level,
                                patterns[d].count, patterns[d].level)

\* C4: two records with the same component and the same level are folded into
\* one and the same cluster, whose frequency counts both (all of them); the
\* digest holds at most one entry per fingerprint.
Thm_C4_SameKeySameCluster ==
    digestDone =>
        /\ \A i \in 1..Len(U) :
             LET same == {j \in 1..Len(U) :
                            /\ U[j].component = U[i].component
                            /\ U[j].level = U[i].level}
                 mine == {p \in 1..Len(patterns) :
                            patterns[p].fingerprint = Fingerprint(U[i])}
             IN  /\ Cardinality(mine) = 1
                 /\ \A p \in mine : patterns[p].count >= Cardinality(same)
        /\ \A a, b \in 1..Len(digest) :
             digest[a].fingerprint = digest[b].fingerprint => a = b

Wit_C4_TwoContentsOneCluster ==
    /\ digestDone
    /\ \E i, j \in 1..Len(U) :
         /\ i < j
         /\ U[i].component = U[j].component
         /\ U[i].level = U[j].level
         /\ U[i].content # U[j].content
         /\ \E e \in 1..Len(digest) :
              /\ digest[e].fingerprint = Fingerprint(U[i])
              /\ digest[e].frequency >= 2

\* C5: an entry's sampleContent is the content of the first record, in input
\* order, with the entry's fingerprint; later records never replace it.
Thm_C5_SampleIsFirst ==
    digestDone =>
        \A e \in 1..Len(digest) :
            digest[e].sampleContent = U[FirstIndex(digest[e].fingerprint)].content

Wit_C5_LaterContentDiffers ==
    /\ digestDone
    /\ \E e \in 1..Len(digest) :
         /\ digest[e].frequency >= 2
         /\ \E k \in 1..Len(U) :
              /\ Fingerprint(U[k]) = digest[e].fingerprint
              /\ U[k].content # digest[e].sampleContent

Thm_C7_TotalsAndUniquePatterns ==
    statsDone =>
        /\ stats.totalLogs = Len(logs)
        /\ stats.uniquePatterns = Cardinality(DistinctFingerprints)
        /\ digestDone =>
             IF Cardinality(DistinctFingerprints) <= 100
             THEN stats.uniquePatterns = Len(digest)
             ELSE stats.uniquePatterns > Len(digest)

Wit_C7_MorePatternsThanDigest ==
    /\ statsDone
    /\ digestDone
    /\ stats.totalLogs > stats.uniquePatterns
    /\ stats.uniquePatterns > Len(digest)

\* C8: errorCount is the number of records whose level is "error" up to
\* letter case, warningCount the number whose level is "warning" up to letter
\* case; nothing else is counted.
Thm_C8_LevelCounts ==
    statsDone =>
        /\ stats.errorCount =
             Cardinality({i \in 1..Len(U) : EqualsIgnoreCase(U[i].level, sLowerError)})
        /\ stats.warningCount =
             Cardinality({i \in 1..Len(U) : EqualsIgnoreCase(U[i].level, sLowerWarning)})

Wit_C8_MixedCaseCounted ==
    /\ statsDone
    /\ stats.totalLogs = 3
    /\ stats.errorCount = 1
    /\ stats.warningCount = 1
    /\ \E i, j, k \in 1..Len(U) :
         /\ U[i].level = sError
         /\ U[j].level = ToUpperCase(sWarning)
         /\ U[k].level = sDebug

-----------------------------------------------------------------------------
(* Properties of the level normalizer.                                     *)

\* the keyword groups in the order of the specification, with their levels
LevelGroups ==
    <<[words |-> ErrorWords, level |-> sError],
      [words |-> WarningWords, level |-> sWarning],
      [words |-> InfoWords, level |-> sInfo],
      [words |-> DebugWords, level |-> sDebug]>>

\* the groups with a keyword found in the case-folded, trimmed input
MatchedGroups(s) ==
    {g \in 1..Len(LevelGroups) :
        \E w \in LevelGroups[g].words : Includes(Trim(ToLowerCase(s)), w)}

NumericCodes == {NumberToString(n) : n \in 0..7}

\* s matches no keyword group and no numeric code
Unmatched(s) ==
    /\ MatchedGroups(s) = {}
    /\ Trim(ToLowerCase(s)) \notin NumericCodes

\* C9: normalizeLevel returns the level of the first keyword group, in the
\* order Error, Warning, Info, Debug, that the case-folded, trimmed input
\* matches; only when no group matches are the exact codes 0,1,2 mapped to
\* Error, 3,4 to Warning, 5,6 to Info and 7 to Debug.
Thm_C9_FirstGroupThenCodes ==
    levelDone =>
        LET s == Trim(ToLowerCase(levelIn))
            matched == MatchedGroups(levelIn)
        IN  IF matched # {}
            THEN levelOut = LevelGroups[SetMin(matched)].level
            ELSE /\ s \in {<<"0">>, <<"1">>, <<"2">>} => levelOut = sError
                 /\ s \in {<<"3">>, <<"4">>} => levelOut = sWarning
                 /\ s \in {<<"5">>, <<"6">>} => levelOut = sInfo
                 /\ s = <<"7">> => levelOut = sDebug

Wit_C9_TwoGroupsEarlierWins ==
    /\ levelDone
    /\ MatchedGroups(levelIn) = {1, 2}
    /\ Includes(levelIn, ToUpperCase(sWarning) \o <<" ">> \o sLowerError)
    /\ levelOut = sError

\* C10 as stated: every input that matches no keyword group and no numeric
\* code, the empty string included, is returned unchanged.
Cex_C10_UnmatchedUnchanged ==
    (levelDone /\ Unmatched(levelIn)) => levelOut = levelIn

\* C10 as amended: every input that matches no keyword group and no numeric
\* code is returned unchanged (blanks and letter case kept), except the empty
\* string, for which "Info" is returned.
Thm_C10_UnmatchedUnchangedOrInfo ==
    (levelDone /\ Unmatched(levelIn)) =>
        levelOut = (IF levelIn = <<>> THEN sInfo ELSE levelIn)

Wit_C10_PaddedUpperCaseKept ==
    /\ levelDone
    /\ Unmatched(levelIn)
    /\ levelIn # Trim(ToLowerCase(levelIn))
    /\ Trim(levelIn) # <<>>
    /\ levelOut = levelIn

-----------------------------------------------------------------------------
(* Properties of the format detector, the row parsers and the ingestion.   *)

\* the set of the header names, case-folded
FoldedHeaders == {ToLowerCase(fields[i]) : i \in 1..Len(fields)}

\* the header rules of the format detector, in the order the claim gives
HeaderRuleOrder == <<"windows", "linux-syslog", "apache", "hadoop", "spark">>

HeaderRuleHolds(tag) ==
    CASE tag = "windows" ->
            {<<"l","i","n","e","i","d">>, <<"c","o","m","p","o","n","e","n","t">>, <<"l","e","v","e","l">>} \subseteq FoldedHeaders
      [] tag = "linux-syslog" ->
            /\ <<"t","i","m","e","s","t","a","m","p">> \in FoldedHeaders
            /\ {<<"h","o","s","t","n","a","m","e">>, <<"h","o","s","t">>} \cap FoldedHeaders # {}
      [] tag = "apache" ->
            {<<"r","e","m","o","t","e","h","o","s","t">>, <<"r","e","q","u","e","s","t">>, <<"s","t","a","t","u","s">>} \cap FoldedHeaders # {}
      [] tag = "hadoop" ->
            /\ <<"l","o","g","t","i","m","e">> \in FoldedHeaders
            /\ {<<"l","e","v","e","l">>, <<"p","r","i","o","r","i","t","y">>} \cap FoldedHeaders # {}
      [] tag = "spark" ->
            {<<"t","i","m","e","s","t","a","m","p">>, <<"l","o","g","g","e","r">>} \subseteq FoldedHeaders

HeaderRulesHeld == {i \in 1..Len(HeaderRuleOrder) : HeaderRuleHolds(HeaderRuleOrder[i])}

\* s contains the word, letter case aside
ContainsIgnoreCase(s, word) ==
    \E i \in 0..(Len(s) - Len(word)) :
        EqualsIgnoreCase(SubSeq(s, i + 1, i + Len(word)), word)

\* the row's value in the first column names sshd, connection or
\* authentication
FirstColumnNamesSsh(row) ==
    /\ Len(fields) > 0
    /\ fields[1] \in DOMAIN row
    /\ \E word \in {<<"s","s","h","d">>, <<"c","o","n","n","e","c","t","i","o","n">>, <<"a","u","t","h","e","n","t","i","c","a","t","i","o","n">>} :
           ContainsIgnoreCase(row[fields[1]], word)

\* what the format detector is to return for the header row and these rows
DetectionOf(rows) ==
    IF HeaderRulesHeld # {}
    THEN HeaderRuleOrder[SetMin(HeaderRulesHeld)]
    ELSE IF \E i \in 1..Len(rows) : FirstColumnNamesSsh(rows[i])
    THEN "openssh"
    ELSE "auto"

\* C11: detectLogFormat returns the format of the first header rule that
\* holds, testing Windows, Linux syslog, Apache, Hadoop, Spark in that order
\* on the case-folded headers; OpenSSH only when no header rule holds and a
\* sample row's first-column value contains sshd, connection or
\* authentication in any letter case; otherwise 'auto'.
Thm_C11_FirstRuleWins ==
    (outcome = "returned") => chosenFormat = DetectionOf(resultsData)

\* C11 witness: three header rules hold at once and the earliest is returned
Wit_C11_ThreeRulesHold ==
    /\ outcome = "returned"
    /\ HeaderRulesHeld = {2, 3, 5}
    /\ chosenFormat = "linux-syslog"

\* the content holds a character that is not white space
NotBlank(content) == \E i \in 1..Len(content) : content[i] \notin WhiteSpace

\* C12: for the headers foo,bar and non-empty body rows parseCSV does not
\* fail: it resolves with records that have non-empty content and the
\* component "unknown".
Cex_C12_UnrecognizedHeadersYieldRecords ==
    (/\ outcome # "pending"
     /\ fields = <<<<"f","o","o">>, <<"b","a","r">>>>
     /\ formatArg = "auto"
     /\ throwsAt = {}
     /\ Len(resultsData) > 0)
    => /\ outcome = "resolved"
       /\ Len(entries) > 0
       /\ \A j \in 1..Len(entries) :
              /\ NotBlank(entries[j].content)
              /\ entries[j].component = <<"u","n","k","n","o","w","n">>

\* the cell of the row under the first header with this case-folded name
CellNamed(row, name) ==
    LET hit == {i \in 1..Len(fields) : ToLowerCase(fields[i]) = name}
    IN  IF hit = {} THEN <<>>
        ELSE IF fields[SetMin(hit)] \in DOMAIN row
        THEN row[fields[SetMin(hit)]]
        ELSE <<>>

\* C13 as stated: every record parseLogRow returns, for every format, has a
\* non-empty component and a non-empty level.
Cex_C13_ComponentAndLevelNeverEmpty ==
    (outcome = "returned") =>
        /\ entries[1].component # <<>>
        /\ entries[1].level # <<>>

\* C13: every record parseLogRow returns from a parser other than the
\* Windows one has a non-empty component and level; the Windows parser
\* copies the Component and Level cells as they are, empty or missing
\* included.
Thm_C13_NeverEmptyExceptWindows ==
    (outcome = "returned") =>
        IF entries[1].source = "Windows"
        THEN /\ entries[1].component = CellNamed(resultsData[1], <<"c","o","m","p","o","n","e","n","t">>)
             /\ entries[1].level = CellNamed(resultsData[1], <<"l","e","v","e","l">>)
        ELSE /\ entries[1].component # <<>>
             /\ entries[1].level # <<>>

\* C13 witness: a row without a Component cell, found to be a Windows row
\* by its headers, comes back with an empty component
Wit_C13_WindowsEmptyComponent ==
    /\ outcome = "returned"
    /\ formatArg = "auto"
    /\ entries[1].source = "Windows"
    /\ <<"c","o","m","p","o","n","e","n","t">> \in FoldedHeaders
    /\ entries[1].component = <<>>
    /\ entries[1].level # <<>>

\* the rows parseCSV passes to the format detector
SampleRows == SubSeq(resultsData, 1, Min(5, Len(resultsData)))

\* the positions of the rows whose parsing did not throw
ParsedRows == (1..Len(resultsData)) \ throwsAt

\* C14 as stated: one call of parseCSV selects the format once, from the
\* headers and the first 5 rows, and every row is parsed by that one
\* format's parser.
Cex_C14_OneParserForEveryRow ==
    (outcome = "resolved") =>
        /\ formatArg = "auto" => chosenFormat = DetectionOf(SampleRows)
        /\ \E tag \in HandledFormats :
              /\ chosenFormat \in HandledFormats => tag = chosenFormat
              /\ \A i \in ParsedRows :
                    mapped[i] = ParseAs(resultsData[i], fields, tag)

\* the parser a row goes to under the format selected for the file
ParserOfRow(row) ==
    IF chosenFormat \in HandledFormats THEN chosenFormat
    ELSE IF DetectionOf(<<row>>) # "auto" THEN DetectionOf(<<row>>)
    ELSE "linux-syslog"

\* C14: one call of parseCSV selects the format once: the format argument,
\* or for 'auto' what the detector returns for the headers and the first 5
\* rows.  If the selected format is one of the six with a parser, every row
\* is parsed by that parser; otherwise ('auto' or a tag without a parser)
\* each row is detected again on its own and parsed by the parser of its
\* own detection, or by the Linux syslog parser if it has none.
Thm_C14_OneParserUnlessAuto ==
    (outcome = "resolved") =>
        /\ chosenFormat = IF formatArg = "auto" THEN DetectionOf(SampleRows)
                          ELSE formatArg
        /\ \A i \in ParsedRows :
              mapped[i] = ParseAs(resultsData[i], fields,
                                  ParserOfRow(resultsData[i]))

\* C14 witness: no format is found for the first 5 rows of a file, and its
\* sixth row goes to the OpenSSH parser while the others go to the Linux one
Wit_C14_SixthRowOtherParser ==
    /\ outcome = "resolved"
    /\ formatArg = "auto"
    /\ chosenFormat = "auto"
    /\ Len(resultsData) = 6
    /\ throwsAt = {}
    /\ mapped[6].source = "OpenSSH"
    /\ \A i \in 1..5 : mapped[i].source = "Linux"

\* C15: a file with a header row and no data rows makes parseCSV reject
\* with the empty-file error; it never resolves for such a file.
Thm_C15_NoRowsRejected ==
    (outcome # "pending" /\ Len(resultsData) = 0) =>
        /\ outcome = "rejected"
        /\ errorMessage = <<"C","S","V"," ","f","i","l","e"," ","i","s"," ","e","m","p","t","y"," ","o","r"," ","h","a","s"," ","n","o"," ","v","a","l","i","d"," ","d","a","t","a">>

\* C15 witness: a file with Windows headers and no rows was rejected
Wit_C15_HeaderRowOnly ==
    /\ outcome = "rejected"
    /\ Len(fields) = 5
    /\ resultsData = <<>>

\* the row as JSON text: its cells in column order
RECURSIVE SerializedFrom(_, _)
SerializedFrom(row, i) ==
    IF i > Len(fields) THEN <<>>
    ELSE IF fields[i] \notin DOMAIN row THEN SerializedFrom(row, i + 1)
    ELSE (IF \E k \in 1..(i - 1) : fields[k] \in DOMAIN row
          THEN <<",">> ELSE <<>>)
           \o <<"\"">> \o fields[i] \o <<"\"">> \o <<":">>
           \o <<"\"">> \o row[fields[i]] \o <<"\"">>
           \o SerializedFrom(row, i + 1)

\* C16: if parsing a row throws, parseCSV puts a fallback record (component
\* "unknown", level "Info", content the serialized row, source the format
\* selected for the file) at that row's position and goes on: the call
\* resolves, the record is in its result, and the records of the other rows
\* are what they are without the throw.
Thm_C16_ThrowingRowReplaced ==
    (outcome # "pending" /\ throwsAt # {}) =>
        /\ outcome = "resolved"
        /\ Len(mapped) = Len(resultsData)
        /\ \A i \in throwsAt :
              /\ mapped[i].component = <<"u","n","k","n","o","w","n">>
              /\ mapped[i].level = <<"I","n","f","o">>
              /\ mapped[i].content =
                    <<"{">> \o SerializedFrom(resultsData[i], 1) \o <<"}">>
              /\ mapped[i].source = chosenFormat
              /\ \E j \in 1..Len(entries) : entries[j] = mapped[i]
        /\ \A i \in ParsedRows :
              mapped[i] = parseLogRow(resultsData[i], fields, chosenFormat)

\* C16 witness: the first of two rows threw and the second was parsed by
\* the Linux parser and kept
Wit_C16_FirstRowThrew ==
    /\ outcome = "resolved"
    /\ throwsAt = {1}
    /\ Len(resultsData) = 2
    /\ mapped[1].source = chosenFormat
    /\ mapped[2].source = "Linux"
    /\ Len(entries) = 2

\* the position in mapped of the j-th record with content that is not blank
KeptPosition(j) ==
    CHOOSE i \in 1..Len(mapped) :
        /\ NotBlank(mapped[i].content)
        /\ Cardinality({k \in 1..i : NotBlank(mapped[k].content)}) = j

\* C17: the list parseCSV resolves with holds no record with empty or
\* white-space-only content, holds every record whose content is neither,
\* and keeps the rows' order.
Thm_C17_BlankContentFiltered ==
    (outcome = "resolved") =>
        /\ Len(entries) =
              Cardinality({i \in 1..Len(mapped) : NotBlank(mapped[i].content)})
        /\ \A j \in 1..Len(entries) : entries[j] = mapped[KeptPosition(j)]

\* C17 witness: of two records the one with a blank for content was dropped
\* and the other was kept
Wit_C17_BlankAndEmptyDropped ==
    /\ outcome = "resolved"
    /\ Len(entries) = 1
    /\ Len(mapped) = 2
    /\ mapped[1].content = <<" ">>
    /\ NotBlank(mapped[2].content)

\* the source tag each parser writes into its records
SourceTagOf(tag) ==
    CASE tag = "windows" -> "Windows"
      [] tag = "linux-syslog" -> "Linux"
      [] tag = "apache" -> "Apache"
      [] tag = "hadoop" -> "Hadoop"
      [] tag = "spark" -> "Spark"
      [] tag = "openssh" -> "OpenSSH"

\* C18: parseLogRow called with 'auto' or with a tag it has no case for runs
\* detectLogFormat on that one row; if a format comes out, the row is parsed
\* by that format's parser and carries its source tag, otherwise it is
\* parsed by the Linux syslog parser.
Thm_C18_AutoRedetectsRow ==
    (outcome = "returned" /\ formatArg \notin HandledFormats) =>
        LET row == resultsData[1]
            detected == DetectionOf(<<row>>)
        IN  IF detected # "auto"
            THEN /\ entries[1] = ParseAs(row, fields, detected)
                 /\ entries[1].source = SourceTagOf(detected)
            ELSE /\ entries[1] = parseLinuxSyslog(row, fields)
                 /\ entries[1].source = "Linux"

\* C18 witness: a row given with a tag without a parser was found to be an
\* OpenSSH row by its first cell and parsed as one
Wit_C18_UnhandledTagToOpenSSH ==
    /\ outcome = "returned"
    /\ formatArg = "thunderbird"
    /\ HeaderRulesHeld = {}
    /\ entries[1].source = "OpenSSH"
    /\ entries[1].component = <<"s","s","h","d">>

\* the alias groups of the Linux parser's component, in their order
ComponentGroups ==
    <<{<<"p","r","o","g","r","a","m">>, <<"s","e","r","v","i","c","e">>}, {<<"c","o","m","p","o","n","e","n","t">>, <<"d","a","e","m","o","n">>}, {<<"l","o","g","g","e","r">>}>>

\* the non-empty cells of the row under the columns of an alias group
GroupValues(row, group) ==
    {row[fields[i]] : i \in {k \in 1..Len(fields) :
                               /\ ToLowerCase(fields[k]) \in group
                               /\ fields[k] \in DOMAIN row}} \ {<<>>}

\* C19: the Linux parser's component is a non-empty cell of the first alias
\* group (program/service, then component/daemon, then logger) that has a
\* non-empty cell, and "unknown" only when none of the five columns has one.
Cex_C19_AnyFilledAliasIsUsed ==
    (outcome = "returned" /\ entries[1].source = "Linux") =>
        LET row == resultsData[1]
            filled == {g \in 1..Len(ComponentGroups) :
                          GroupValues(row, ComponentGroups[g]) # {}}
        IN  IF filled = {} THEN entries[1].component = <<"u","n","k","n","o","w","n">>
            ELSE entries[1].component
                    \in GroupValues(row, ComponentGroups[SetMin(filled)])

\* C20: every summary analyzeLogDigest returns, through the Lambda path or
\* the local path, has a severityScore within [1,10], whatever score the AI
\* collaborator gave.
Cex_C20_ScoresWithinRange ==
    (pc = "returned" /\ returned.kind = "array") =>
        \A j \in 1..Len(returned.items) :
            /\ returned.items[j].severityScore.isNumber
            /\ returned.items[j].severityScore.n >= 1
            /\ returned.items[j].severityScore.n <= 10


-----------------------------------------------------------------------------
(* The severity vocabulary of the two consumers of a record.               *)

\* calculateStats counts the record e under the lower-case level name word
CountedAs(e, word) == CountLevel(<<e>>, word) = 1

\* processLogs ranks the record e with priority n
RankedAs(e, n) == LevelPriorityOrZero(e.level) = Number(n)

\* C21: for every record ingestion produces, calculateStats counts it as an
\* error exactly when processLogs gives its level priority 3 ("Error"), and as
\* a warning exactly when it gives priority 2 ("Warning").
Cex_C21_StatsAndDigestAgreeOnSeverity ==
    outcome = "returned" =>
        /\ CountedAs(entries[1], sLowerError) <=> RankedAs(entries[1], 3)
        /\ CountedAs(entries[1], sLowerWarning) <=> RankedAs(entries[1], 2)

\* C22: analyzeLogDigest never returns the Lambda's error body: what it
\* returns by the Lambda path is an array of summaries, and every failure of
\* the Lambda execution ends in the local path's result.
Cex_C22_LambdaErrorBodyNeverReturned ==
    (pc = "returned" /\ returned.via = "lambda") => returned.kind = "array"

-----------------------------------------------------------------------------
(* Clusters and their frequencies.                                         *)

\* the records with exactly this component and this level
SameComponentAndLevel(component, level) ==
    {i \in 1..Len(U) : U[i].component = component /\ U[i].level = level}

\* C26: each digest entry's frequency is the number of input records with
\* exactly that entry's component and level: two records are merged only if
\* they have the same component and the same level.
Cex_C26_MergedOnlyOnSameComponentAndLevel ==
    digestDone =>
        \A p \in 1..Len(digest) :
            digest[p].frequency =
                Cardinality(SameComponentAndLevel(digest[p].component,
                                                  digest[p].level))

\* digest[1].frequency + ... + digest[n].frequency
RECURSIVE SumFrequency(_, _)
SumFrequency(d, n) ==
    IF n = 0 THEN 0 ELSE d[n].frequency + SumFrequency(d, n - 1)

\* C27: every frequency is at least 1; the frequencies of the digest add up
\* to totalLogs when the input has at most 100 distinct fingerprints, and to
\* less than totalLogs when it has more.
Thm_C27_FrequenciesSumToTotal ==
    (digestDone /\ statsDone) =>
        /\ \A p \in 1..Len(digest) : digest[p].frequency >= 1
        /\ IF Cardinality(DistinctFingerprints) <= DigestCap
           THEN SumFrequency(digest, Len(digest)) = stats.totalLogs
           ELSE SumFrequency(digest, Len(digest)) < stats.totalLogs

Wit_C27_SumBelowTotal ==
    /\ digestDone
    /\ statsDone
    /\ Cardinality(DistinctFingerprints) > DigestCap
    /\ SumFrequency(digest, Len(digest)) < stats.totalLogs
    /\ \E p \in 1..Len(digest) : digest[p].frequency > 1

\* the list is a WindowsLog[], as 'LineId' in logs[0] tests it
IsWindowsView == Len(logs) > 0 /\ "LineId" \in DOMAIN logs[1]

\* the LogEntry[] the WindowsLog[] view in logs was derived from, up to its
\* source tag
ViewedEntries ==
    [i \in 1..Len(logs) |->
        [timestamp |-> logs[i].Time, component |-> logs[i].Component,
         level |-> logs[i].Level, content |-> logs[i].Content,
         source |-> "Linux"]]

\* C28: on the WindowsLog[] view of a LogEntry[] L, processLogs and
\* calculateStats return the digest and the stats they return on L itself.
Thm_C28_WindowsViewEquivalent ==
    IsWindowsView =>
        /\ logs = AsWindowsLogs(ViewedEntries)
        /\ digestDone => digest = processLogs(ViewedEntries)
        /\ statsDone => stats = calculateStats(ViewedEntries)

Wit_C28_ViewProcessed ==
    /\ IsWindowsView
    /\ digestDone
    /\ statsDone
    /\ Len(digest) >= 2
    /\ stats.errorCount >= 1
    /\ \E p \in 1..Len(digest) : digest[p].frequency >= 2


-----------------------------------------------------------------------------
(* The retry loop of analyzeLogsWithAI.                                    *)

AiDone ==
    aiPc \in {"returned", "thrownNoKey", "thrownAfterAttempts", "thrownAfterLoop"}

\* C23: one call of analyzeLogsWithAI makes at most maxRetries = 3
\* generateContent calls in total, and the error "Failed to analyze logs with
\* AI after 3 attempts" is thrown after exactly 3 of them.
Cex_C23_AtMostThreeCalls ==
    /\ calls <= maxRetriesWithAI
    /\ aiPc = "thrownAfterAttempts" => calls = maxRetriesWithAI

\* C23, amended: at most maxRetries calls are made with each model, so at most
\* maxRetries * models.length in total; the error is thrown after exactly
\* maxRetries calls with the model then in use, that is after 3 calls in
\* total if the model was not switched and after 6 if it was.
Thm_C23_AtMostThreeCallsPerModel ==
    /\ calls <= maxRetriesWithAI * Len(models)
    /\ calls <= maxRetriesWithAI * (currentModelIndex + 1)
    /\ aiPc = "thrownAfterAttempts" =>
          calls = maxRetriesWithAI * (currentModelIndex + 1)

Wit_C23_ThrownAfterSixCalls ==
    /\ aiPc = "thrownAfterAttempts"
    /\ currentModelIndex = 1
    /\ calls = 2 * maxRetriesWithAI

Thm_C25_AnalyzeLogsWithAITerminates == <>AiDone

Wit_C25_ReturnedAfterModelSwitch ==
    /\ aiPc = "returned"
    /\ currentModelIndex = 1
    /\ calls = 2 * maxRetriesWithAI
    /\ Len(insights) = MaxDigest


-----------------------------------------------------------------------------
(* The recursion of parseLogRow.                                           *)

\* parseLogRow calls made by parseLogRow itself, directly or indirectly
RecursionDepth == Len(frames) - 1

\* C30: parseLogRow returns for every row, header row and format tag, and it
\* never calls itself more than one level deep.
Thm_C30_ParseLogRowTerminates ==
    /\ [](frames # <<>> => RecursionDepth <= 1)
    /\ [](frames # <<>> /\ RecursionDepth = 1 =>
             /\ formatArg \notin HandledFormats
             /\ frames[2] \in HandledFormats)
    /\ <>(outcome = "returned")

Wit_C30_ReturnedFromNestedCall ==
    /\ outcome = "returned"
    /\ RecursionDepth = 1
    /\ formatArg = "thunderbird"
    /\ entries[1].source = "OpenSSH"


-----------------------------------------------------------------------------
(* The status of the page during an upload.                                *)

\* the stages of a run, in order
Stages == <<"parsing", "processing", "analyzing", "complete">>

\* one step of the page changes `status` only in these ways: a run starts
\* with 'parsing', a stage is followed by the next one, or a stage of the
\* run fails and the status is 'idle' with the error message set
StatusMovesForward ==
    pageStatus' # pageStatus =>
        \/ /\ pagePc \in {"ready", "finished"}
           /\ pageStatus' = "parsing"
        \/ \E k \in 1..(Len(Stages) - 1) :
              /\ pageStatus = Stages[k]
              /\ pageStatus' = Stages[k + 1]
        \/ /\ pageStatus \in {"parsing", "processing", "analyzing"}
           /\ pageStatus' = "idle"
           /\ pageError' # NoError

\* while a run is under way, loading is true and no error is set
RunUnderWay ==
    pagePc \in {"parseCSV", "timeout", "analyzeLogDigest"} =>
        /\ loading
        /\ pageError = NoError
        /\ pageStatus \in {"parsing", "processing", "analyzing"}

\* the run ended in failure: idle, with the error message set
EndedInFailure == pageStatus = "idle" /\ pageError # NoError

\* C29: during one run the status only moves forward through parsing,
\* processing, analyzing, complete, and returns to idle only when a stage
\* fails; when the run is over loading is false, and the status is complete
\* with no error, stats set and a non-empty list of analyzed patterns, or idle
\* with the error message set.
Cex_C29_CompleteWithPatterns ==
    /\ [][StatusMovesForward]_vars
    /\ [](pagePc = "finished" =>
            /\ ~loading
            /\ \/ /\ pageStatus = "complete"
                  /\ pageError = NoError
                  /\ statsDone
                  /\ analyzedPatterns # <<>>
               \/ EndedInFailure)

\* C29, amended: as above, but the analyzed patterns of a completed run are
\* one pattern per digest entry, in the digest's order, and so there are none
\* when parseCSV resolved with no record.
Thm_C29_StatusMovesForward ==
    /\ [][StatusMovesForward]_vars
    /\ []RunUnderWay
    /\ [](pagePc = "finished" =>
            /\ ~loading
            /\ \/ /\ pageStatus = "complete"
                  /\ pageError = NoError
                  /\ statsDone
                  /\ stats = calculateStats(logs)
                  /\ Len(analyzedPatterns) = Len(digest)
                  /\ \A i \in 1..Len(digest) :
                        /\ analyzedPatterns[i].fingerprint = digest[i].fingerprint
                        /\ analyzedPatterns[i].totalOccurrences = digest[i].frequency
                  /\ analyzedPatterns = <<>> <=> logs = <<>>
               \/ EndedInFailure)

Wit_C29_CompleteWithTwoPatterns ==
    /\ pagePc = "finished"
    /\ pageStatus = "complete"
    /\ Len(analyzedPatterns) = 2
    /\ analyzedPatterns[1].severityScore = 7
    /\ analyzedPatterns[2].severityScore = 5

====
